---- MODULE Spec2Model ----
(***************************************************************************)
(* Model of istio-test's metadata package: the retry loop of               *)
(* Client.FetchMetadata, the connectivity probe checkMetadataService that  *)
(* runs it under a 3-second child context, and the reduction               *)
(* determineOverallHealth.                                                 *)
(*                                                                         *)
(* Time is counted in whole units (one unit = one second); durations are   *)
(* integers and the float64 multiplier is the rational mulNum / mulDen,    *)
(* the product being truncated as time.Duration(float64(d) * m) truncates. *)
(***************************************************************************)
EXTENDS Integers, Sequences, FiniteSets, TLC

VARIABLES
    policy,      \* Client fields: maxRetries, baseRetryDelay, maxRetryDelay, retryMultiplier
    mode,        \* "fetch": FetchMetadata called with the caller's context;
                 \* "probe": called by checkMetadataService under its child context
    urlValid,    \* whether http.NewRequestWithContext accepts the url
    ctxErr,      \* ctx.Err(): "nil", "Canceled" or "DeadlineExceeded"
    ctxAtCall,   \* ctx.Err() when FetchMetadata was entered (history)
    now,         \* time elapsed since the call started (since checkStart)
    pc,          \* position in FetchMetadata: "loop", "do", "sleep", "done" ("idle": no call)
    attempt,     \* loop variable attempt
    retryDelay,  \* local retryDelay
    lastErr,     \* local lastErr
    remaining,   \* time left of the time.Sleep in progress
    inflight,    \* time the request in flight has taken so far
    requests,    \* number of httpClient.Do calls issued (history)
    sleeps,      \* durations passed to time.Sleep, in order (history)
    outcomes,    \* outcome of each httpClient.Do, in order (history)
    result,      \* returned string
    err,         \* returned error
    check,       \* HealthCheck returned by checkMetadataService
    checks,      \* argument of determineOverallHealth: name -> status
    order,       \* order in which the map iteration visits the names
    overall,     \* value returned by determineOverallHealth
    handler,     \* the handler serving the request: "metadata", "health", "basic" ("none": no request)
    upstream,    \* whether the metadata server can be reached
    path,        \* r.URL.Path, a sequence of "/" and name tokens
    fetchCalls,  \* urls the handler passed to the fetch capability, in order (history)
    fetched,     \* what the fetch capability returned to the handler
    encodeOk,    \* whether the JSON encoding of the response succeeds
    connOk,      \* whether writes to the client connection succeed
    resp,        \* the http.ResponseWriter: status sent, WriteHeader calls, body written
    calls,       \* per concurrent FetchMetadata call: its locals and history
    client,      \* the Client shared by the concurrent calls
    env,         \* the METADATA_* environment variables
    conf,        \* config.Load()'s MetadataConfig
    built,       \* the Client main builds from conf
    sreq,        \* the request to a handler wrapped by SecureHandlerWithOptions:
                 \* method, allowedMethods, options
    sresp,       \* what that handler has sent: status, headers, body, and the
                 \* calls of the inner handler
    rreq,        \* the request and Config given to redactRequestFields
    redacted,    \* what redactRequestFields returned
    lreq,        \* the request served through RequestLoggingMiddleware
    lpc,         \* where the middleware is in serving it
    lprog,       \* the writer calls the wrapped handler has still to make
    wrapper,     \* the responseWrapper: statusCode and size
    lconn,       \* the underlying ResponseWriter: status sent, bytes written
    logs,        \* the log entries emitted so far
    lclock,      \* time.Now().UnixNano()
    lhist,       \* history: the handler's WriteHeader calls and written bytes
    mconf,       \* main: the shutdown timeout and whether the port can be bound
    mpc,         \* main: where the main goroutine is
    spc,         \* main: where the goroutine running ListenAndServe is
    quit,        \* main: the signals buffered in the quit channel
    active,      \* main: the connections with a request in progress
    timer,       \* main: what is left of the shutdown timeout
    mhist        \* history: signals delivered, Shutdown calls, errors logged

vars == <<policy, mode, urlValid, ctxErr, ctxAtCall, now, pc, attempt, retryDelay,
          lastErr, remaining, inflight, requests, sleeps, outcomes,
          result, err, check, checks, order, overall,
          handler, upstream, path, fetchCalls, fetched, encodeOk, connOk, resp,
          calls, client, env, conf, built,
          sreq, sresp, rreq, redacted,
          lreq, lpc, lprog, wrapper, lconn, logs, lclock, lhist,
          mconf, mpc, spc, quit, active, timer, mhist>>

fetchVars == <<policy, mode, urlValid, ctxErr, ctxAtCall, now, pc, attempt, retryDelay,
               lastErr, remaining, inflight, requests, sleeps, outcomes,
               result, err, check>>

healthVars == <<checks, order, overall>>

httpVars == <<handler, upstream, path, fetchCalls, fetched, encodeOk, connOk, resp>>

concVars == <<calls, client>>

confVars == <<env, conf, built>>

secVars == <<sreq, sresp>>

\* the variables of the middleware and of main
redactVars == <<rreq, redacted>>

logVars == <<lreq, lpc, lprog, wrapper, lconn, logs, lclock, lhist>>

mainVars == <<mconf, mpc, spc, quit, active, timer, mhist>>

edgeVars == <<secVars, redactVars, logVars, mainVars>>

----------------------------------------------------------------------------
(* Bounds of the model *)

MaxMaxRetries == 3
MaxBaseDelay == 2
MaxMaxDelay == 2
MaxInFlight == 1
MaxChecks == 3

(* Program constants *)

StatusOK == 200
StatusTooManyRequests == 429
ProbeTimeout == 3
SlowThreshold == 1

Multipliers == {<<2, 1>>, <<3, 2>>, <<1, 2>>}

Statuses == {200, 204, 404, 429, 499, 500, 599, 600}

Bodies == {"a", "b"}

Policies ==
    {[maxRetries |-> n, baseRetryDelay |-> b, maxRetryDelay |-> x,
      mulNum |-> m[1], mulDen |-> m[2]] :
        n \in 0..MaxMaxRetries, b \in 1..MaxBaseDelay, x \in 1..MaxMaxDelay,
        m \in Multipliers}

----------------------------------------------------------------------------
(* Values *)

NoErr == [kind |-> "none", status |-> 0, body |-> "", attempt |-> 0]

TransportErr(a) == [kind |-> "transport", status |-> 0, body |-> "", attempt |-> a]

StatusErr(s, b, a) == [kind |-> "status", status |-> s, body |-> b, attempt |-> a]

NilError == [kind |-> "nil", n |-> 0, cause |-> NoErr, ctx |-> "nil"]

ErrContextCancelled(c) == [kind |-> "ContextCancelled", n |-> 0, cause |-> NoErr, ctx |-> c]

ErrCreatingRequest == [kind |-> "CreatingRequest", n |-> 0, cause |-> NoErr, ctx |-> "nil"]

ErrReadingBody == [kind |-> "ReadingBody", n |-> 0, cause |-> NoErr, ctx |-> "nil"]

ErrFailedAfter(n, cause) == [kind |-> "FailedAfter", n |-> n, cause |-> cause, ctx |-> "nil"]

NoCheck == [status |-> "none", message |-> "", detail |-> NilError, duration |-> 0]

TransportOutcome == [kind |-> "transport", status |-> 0, body |-> "", readOk |-> FALSE]

ResponseOutcome(s, b, ok) == [kind |-> "response", status |-> s, body |-> b, readOk |-> ok]

\* a fresh http.ResponseWriter: no status sent, nothing written
NewResponse == [status |-> 0, headerCalls |-> <<>>, contentType |-> "", body |-> <<>>]

\* the handler has not called the fetch capability
NoFetch == [called |-> FALSE, value |-> <<>>, err |-> NilError]

\* no request is being served
HttpIdle ==
    /\ handler = "none"
    /\ upstream = "reachable"
    /\ path = <<>>
    /\ fetchCalls = <<>>
    /\ fetched = NoFetch
    /\ encodeOk = TRUE
    /\ connOk = TRUE
    /\ resp = NewResponse

\* no concurrent calls are running
ConcIdle ==
    /\ calls = <<>>
    /\ client = <<>>

\* the configuration is not being loaded
ConfIdle ==
    /\ env = <<>>
    /\ conf = <<>>
    /\ built = <<>>

\* no request is at a secured handler
SecIdle ==
    /\ sreq = <<>>
    /\ sresp = <<>>

\* redactRequestFields is not running
RedactIdle ==
    /\ rreq = <<>>
    /\ redacted = <<>>

\* RequestLoggingMiddleware is not serving
LogIdle ==
    /\ lreq = <<>>
    /\ lpc = "idle"
    /\ lprog = <<>>
    /\ wrapper = <<>>
    /\ lconn = <<>>
    /\ logs = <<>>
    /\ lclock = 0
    /\ lhist = <<>>

\* main is not running
MainIdle ==
    /\ mconf = <<>>
    /\ mpc = "idle"
    /\ spc = "idle"
    /\ quit = <<>>
    /\ active = 0
    /\ timer = 0
    /\ mhist = <<>>

EdgeIdle == SecIdle /\ RedactIdle /\ LogIdle /\ MainIdle

----------------------------------------------------------------------------
(* Client.FetchMetadata *)

\* Retryable with every 4xx status retried as well
RetryableAny4xx5xx(status) ==
    (status >= 400 /\ status < 600) \/ status = StatusTooManyRequests

\* Retryable with 500 itself left out of the retried range
RetryableAbove500(status) ==
    (status > 500 /\ status < 600) \/ status = StatusTooManyRequests

\* metadata.go:97, the statuses that are retried
Retryable(status) ==
    (status >= 500 /\ status < 600) \/ status = StatusTooManyRequests

\* AttemptsRemain giving up one attempt early
AttemptsRemainOffByOne(p, a) == a < p.maxRetries - 2

\* metadata.go:78 and 98, whether another attempt follows this one
AttemptsRemain(p, a) == a < p.maxRetries - 1

\* CtxDone that notices cancellation but not an expired deadline
CtxDoneCanceledOnly(cErr) == cErr = "Canceled"

\* metadata.go:62-66, the select on ctx.Done()
CtxDone(cErr) == cErr # "nil"

\* metadata.go:81-84 and 101-104, the delay after one multiplicative step
NextDelay(p, d) ==
    LET grown == (d * p.mulNum) \div p.mulDen
    IN  IF grown > p.maxRetryDelay THEN p.maxRetryDelay ELSE grown

\* CheckResult with the slow threshold compared by >= instead of >
CheckResultSlowInclusive(e, cErr, duration) ==
    IF e.kind # "nil"
    THEN IF cErr = "DeadlineExceeded"
         THEN [status |-> "unhealthy", message |-> "Metadata service timeout",
               detail |-> NilError, duration |-> duration]
         ELSE [status |-> "degraded", message |-> "Metadata service error: ",
               detail |-> e, duration |-> duration]
    ELSE IF duration >= SlowThreshold
         THEN [status |-> "degraded", message |-> "Metadata service responding slowly",
               detail |-> NilError, duration |-> duration]
         ELSE [status |-> "healthy", message |-> "Metadata service is responsive",
               detail |-> NilError, duration |-> duration]

\* checkMetadataService's classification of the fetch it ran (metadata.go:228-263)
CheckResult(e, cErr, duration) ==
    IF e.kind # "nil"
    THEN IF cErr = "DeadlineExceeded"
         THEN [status |-> "unhealthy", message |-> "Metadata service timeout",
               detail |-> NilError, duration |-> duration]
         ELSE [status |-> "degraded", message |-> "Metadata service error: ",
               detail |-> e, duration |-> duration]
    ELSE IF duration > SlowThreshold
         THEN [status |-> "degraded", message |-> "Metadata service responding slowly",
               detail |-> NilError, duration |-> duration]
         ELSE [status |-> "healthy", message |-> "Metadata service is responsive",
               detail |-> NilError, duration |-> duration]

\* the context's Err() after the clock has reached t: the child context of
\* checkMetadataService expires ProbeTimeout after checkStart
ErrAt(cErr, t) ==
    IF cErr = "nil" /\ mode = "probe" /\ t >= ProbeTimeout
    THEN "DeadlineExceeded"
    ELSE cErr

\* FetchMetadata returns (res, e); under checkMetadataService the probe is
\* classified on return
Return(res, e) ==
    /\ pc' = "done"
    /\ result' = res
    /\ err' = e
    /\ check' = IF mode = "probe" THEN CheckResult(e, ctxErr, now) ELSE NoCheck

\* time.Sleep(retryDelay) is entered (metadata.go:80, 100)
Backoff ==
    /\ pc' = "sleep"
    /\ remaining' = retryDelay
    /\ sleeps' = Append(sleeps, retryDelay)
    /\ UNCHANGED <<result, err, check>>

\* the loop condition attempt < c.maxRetries is false
LoopExit ==
    /\ pc = "loop"
    /\ ~(attempt < policy.maxRetries)
    /\ Return("", ErrFailedAfter(policy.maxRetries, lastErr))
    /\ UNCHANGED <<policy, mode, urlValid, ctxErr, ctxAtCall, now, attempt, retryDelay,
                   lastErr, remaining, inflight, requests, sleeps, outcomes, healthVars, httpVars,
                   concVars, confVars, edgeVars>>

\* case <-ctx.Done() at the head of an attempt
CtxCancelled ==
    /\ pc = "loop"
    /\ attempt < policy.maxRetries
    /\ CtxDone(ctxErr)
    /\ Return("", ErrContextCancelled(ctxErr))
    /\ UNCHANGED <<policy, mode, urlValid, ctxErr, ctxAtCall, now, attempt, retryDelay,
                   lastErr, remaining, inflight, requests, sleeps, outcomes, healthVars, httpVars,
                   concVars, confVars, edgeVars>>

\* http.NewRequestWithContext fails
RequestError ==
    /\ pc = "loop"
    /\ attempt < policy.maxRetries
    /\ ~CtxDone(ctxErr)
    /\ ~urlValid
    /\ Return("", ErrCreatingRequest)
    /\ UNCHANGED <<policy, mode, urlValid, ctxErr, ctxAtCall, now, attempt, retryDelay,
                   lastErr, remaining, inflight, requests, sleeps, outcomes, healthVars, httpVars,
                   concVars, confVars, edgeVars>>

\* c.httpClient.Do(req) is called
SendRequest ==
    /\ pc = "loop"
    /\ attempt < policy.maxRetries
    /\ ~CtxDone(ctxErr)
    /\ urlValid
    /\ pc' = "do"
    /\ requests' = requests + 1
    /\ inflight' = 0
    /\ UNCHANGED <<policy, mode, urlValid, ctxErr, ctxAtCall, now, attempt, retryDelay,
                   lastErr, remaining, sleeps, outcomes, result, err, check, healthVars, httpVars,
                   concVars, confVars, edgeVars>>

\* time passes while the request is in flight; the clock is followed only
\* under checkMetadataService, where the deadline and the measured duration
\* depend on it (a plain FetchMetadata call never reads it)
DoTick ==
    /\ pc = "do"
    /\ mode = "probe"
    /\ inflight < MaxInFlight
    /\ inflight' = inflight + 1
    /\ now' = now + 1
    /\ ctxErr' = ErrAt(ctxErr, now + 1)
    /\ UNCHANGED <<policy, mode, urlValid, ctxAtCall, pc, attempt, retryDelay, lastErr,
                   remaining, requests, sleeps, outcomes, result, err, check, healthVars, httpVars,
                   concVars, confVars, edgeVars>>

\* Do returns an error (metadata.go:76-88)
DoTransportError ==
    /\ pc = "do"
    /\ lastErr' = TransportErr(attempt + 1)
    /\ outcomes' = Append(outcomes, TransportOutcome)
    /\ IF AttemptsRemain(policy, attempt)
       THEN Backoff
       ELSE /\ Return("", ErrFailedAfter(policy.maxRetries, lastErr'))
            /\ UNCHANGED <<remaining, sleeps>>
    /\ UNCHANGED <<policy, mode, urlValid, ctxErr, ctxAtCall, now, attempt, retryDelay,
                   inflight, requests, healthVars, httpVars,
                   concVars, confVars, edgeVars>>

\* Do returns a response with status s and body b; readOk tells whether
\* io.ReadAll of the body succeeds (metadata.go:92-120)
DoResponse(s, b, readOk) ==
    /\ pc = "do"
    /\ ctxErr = "nil"
    /\ outcomes' = Append(outcomes, ResponseOutcome(s, b, readOk))
    /\ IF s # StatusOK
       THEN /\ lastErr' = StatusErr(s, b, attempt + 1)
            /\ IF Retryable(s) /\ AttemptsRemain(policy, attempt)
               THEN Backoff
               ELSE /\ Return("", ErrFailedAfter(policy.maxRetries, lastErr'))
                    /\ UNCHANGED <<remaining, sleeps>>
       ELSE /\ IF readOk
               THEN Return(b, NilError)
               ELSE Return("", ErrReadingBody)
            /\ UNCHANGED <<lastErr, remaining, sleeps>>
    /\ UNCHANGED <<policy, mode, urlValid, ctxErr, ctxAtCall, now, attempt, retryDelay,
                   inflight, requests, healthVars, httpVars,
                   concVars, confVars, edgeVars>>

\* time passes inside time.Sleep, which does not look at the context
SleepTick ==
    /\ pc = "sleep"
    /\ remaining > 0
    /\ remaining' = remaining - 1
    /\ now' = now + 1
    /\ ctxErr' = ErrAt(ctxErr, now + 1)
    /\ UNCHANGED <<policy, mode, urlValid, ctxAtCall, pc, attempt, retryDelay, lastErr,
                   inflight, requests, sleeps, outcomes, result, err, check, healthVars, httpVars,
                   concVars, confVars, edgeVars>>

\* time.Sleep returns; the delay grows and the loop continues (metadata.go:81-85, 101-105)
SleepDone ==
    /\ pc = "sleep"
    /\ remaining = 0
    /\ retryDelay' = NextDelay(policy, retryDelay)
    /\ attempt' = attempt + 1
    /\ pc' = "loop"
    /\ UNCHANGED <<policy, mode, urlValid, ctxErr, ctxAtCall, now, lastErr, remaining,
                   inflight, requests, sleeps, outcomes, result, err, check, healthVars, httpVars,
                   concVars, confVars, edgeVars>>

\* the caller's context is cancelled while the call is running
CancelCtx ==
    /\ pc \in {"loop", "do", "sleep"}
    /\ ctxErr = "nil"
    /\ ctxErr' = "Canceled"
    /\ UNCHANGED <<policy, mode, urlValid, ctxAtCall, now, pc, attempt, retryDelay, lastErr,
                   remaining, inflight, requests, sleeps, outcomes, result, err, check,
                   healthVars, httpVars, concVars, confVars, edgeVars>>

FetchIdle ==
    /\ policy = [maxRetries |-> 3, baseRetryDelay |-> 1, maxRetryDelay |-> 2,
                 mulNum |-> 2, mulDen |-> 1]
    /\ mode = "fetch"
    /\ urlValid = TRUE
    /\ ctxErr = "nil"
    /\ ctxAtCall = "nil"
    /\ now = 0
    /\ pc = "idle"
    /\ attempt = 0
    /\ retryDelay = 0
    /\ lastErr = NoErr
    /\ remaining = 0
    /\ inflight = 0
    /\ requests = 0
    /\ sleeps = <<>>
    /\ outcomes = <<>>
    /\ result = ""
    /\ err = NilError
    /\ check = NoCheck

HealthIdle ==
    /\ checks = <<>>
    /\ order = <<>>
    /\ overall = "none"

Init ==
    /\ policy \in Policies
    /\ mode \in {"fetch", "probe"}
    /\ urlValid \in IF mode = "probe" THEN {TRUE} ELSE BOOLEAN
    /\ ctxErr \in IF mode = "probe" THEN {"nil", "Canceled"}
                  ELSE {"nil", "Canceled", "DeadlineExceeded"}
    /\ ctxAtCall = ctxErr
    /\ now = 0
    /\ pc = "loop"
    /\ attempt = 0
    /\ retryDelay = policy.baseRetryDelay
    /\ lastErr = NoErr
    /\ remaining = 0
    /\ inflight = 0
    /\ requests = 0
    /\ sleeps = <<>>
    /\ outcomes = <<>>
    /\ result = ""
    /\ err = NilError
    /\ check = NoCheck
    /\ HealthIdle
    /\ HttpIdle
    /\ ConcIdle
    /\ ConfIdle
    /\ EdgeIdle

Next ==
    \/ LoopExit
    \/ CtxCancelled
    \/ RequestError
    \/ SendRequest
    \/ DoTick
    \/ DoTransportError
    \/ \E s \in Statuses, b \in Bodies, readOk \in BOOLEAN : DoResponse(s, b, readOk)
    \/ SleepTick
    \/ SleepDone
    \/ CancelCtx

Spec == Init /\ [][Next]_vars

----------------------------------------------------------------------------
(* determineOverallHealth *)

HealthStatuses == {"healthy", "degraded", "unhealthy"}

CheckNames == {"metadata_service", "http_server", "service1", "service2"}

\* the orders in which ranging over a map with key set S can visit its keys
VisitOrders(S) ==
    {o \in [1..Cardinality(S) -> S] : \A i, j \in 1..Cardinality(S) : o[i] = o[j] => i = j}

\* the counter the loop of determineOverallHealth keeps for status st (metadata.go:272-281)
RECURSIVE CountStatus(_, _, _)
CountStatus(chk, ord, st) ==
    IF ord = <<>>
    THEN 0
    ELSE (IF chk[Head(ord)] = st THEN 1 ELSE 0) + CountStatus(chk, Tail(ord), st)

\* determineOverallHealth with the two priority tests in the wrong order
determineOverallHealthDegradedFirst(chk, ord) ==
    LET degradedCount == CountStatus(chk, ord, "degraded")
        unhealthyCount == CountStatus(chk, ord, "unhealthy")
    IN  IF degradedCount > 0 THEN "degraded"
        ELSE IF unhealthyCount > 0 THEN "unhealthy"
        ELSE "healthy"

\* metadata.go:267-295
determineOverallHealth(chk, ord) ==
    LET degradedCount == CountStatus(chk, ord, "degraded")
        unhealthyCount == CountStatus(chk, ord, "unhealthy")
    IN  IF unhealthyCount > 0 THEN "unhealthy"
        ELSE IF degradedCount > 0 THEN "degraded"
        ELSE "healthy"

HealthInit ==
    /\ checks \in UNION {[S -> HealthStatuses] :
                            S \in {T \in SUBSET CheckNames : Cardinality(T) <= MaxChecks}}
    /\ order \in VisitOrders(DOMAIN checks)
    /\ overall = "none"
    /\ FetchIdle
    /\ HttpIdle
    /\ ConcIdle
    /\ ConfIdle
    /\ EdgeIdle

DetermineOverallHealth ==
    /\ overall = "none"
    /\ overall' = determineOverallHealth(checks, order)
    /\ UNCHANGED <<checks, order, fetchVars, httpVars, concVars, confVars, edgeVars>>

HealthNext == DetermineOverallHealth

SpecHealth == HealthInit /\ [][HealthNext]_vars

----------------------------------------------------------------------------
(* The handlers: MetadataHandler, EnhancedHealthCheckHandler, HealthCheckHandler *)

MaxSegments == 5
MaxValueSegments == 3
MaxProbeDuration == 4

StatusBadRequest == 400
StatusInternalServerError == 500
StatusBadGateway == 502
StatusServiceUnavailable == 503

ClusterNameURL ==
    "http://metadata.google.internal/computeMetadata/v1/instance/attributes/cluster-name"

ClusterLocationURL ==
    "http://metadata.google.internal/computeMetadata/v1/instance/attributes/cluster-location"

InstanceZoneURL == "http://metadata.google.internal/computeMetadata/v1/instance/zone"

\* strings are sequences of tokens; "/" is the separator, the others are
\* runs of characters without a slash
PathSegments == {<<>>, <<"x">>, <<"cluster-name">>, <<"cluster-location">>,
                 <<"instance-zone">>}

ValueSegments == {<<>>, <<"a">>, <<"b">>}

SeqsUpTo(S, n) == UNION {[1..k -> S] : k \in 0..n}

\* the string whose parts between the slashes are segs
RECURSIVE JoinSlash(_)
JoinSlash(segs) ==
    IF Len(segs) = 0 THEN <<>>
    ELSE IF Len(segs) = 1 THEN segs[1]
    ELSE segs[1] \o <<"/">> \o JoinSlash(Tail(segs))

\* request paths: they begin with a slash
Paths ==
    {JoinSlash(segs) : segs \in {q \in SeqsUpTo(PathSegments, MaxSegments) :
                                   Len(q) >= 2 /\ q[1] = <<>>}}

\* strings the metadata server answers with
Values == {JoinSlash(segs) : segs \in SeqsUpTo(ValueSegments, MaxValueSegments)}

\* errors a fetch capability returns: they differ in kind and in text
FetchErrors ==
    {ErrContextCancelled("Canceled"),
     ErrFailedAfter(3, TransportErr(3)),
     ErrFailedAfter(3, StatusErr(500, "a", 3)),
     ErrFailedAfter(3, StatusErr(500, "b", 3)),
     ErrFailedAfter(3, StatusErr(404, "a", 1)),
     ErrFailedAfter(0, NoErr),
     ErrReadingBody}

TrimSuffixSlashNone(s) == s

\* strings.TrimSuffix(s, "/")
TrimSuffixSlash(s) ==
    IF Len(s) > 0 /\ s[Len(s)] = "/" THEN SubSeq(s, 1, Len(s) - 1) ELSE s

\* strings.Split(s, "/"): the substrings between the slashes, at least one
RECURSIVE SplitSlash(_)
SplitSlash(s) ==
    IF \A i \in 1..Len(s) : s[i] # "/"
    THEN <<s>>
    ELSE LET i == CHOOSE j \in 1..Len(s) :
                      s[j] = "/" /\ \A k \in 1..(j - 1) : s[k] # "/"
         IN  <<SubSeq(s, 1, i - 1)>> \o SplitSlash(SubSeq(s, i + 1, Len(s)))

\* w.Header().Set("Content-Type", ct): headers change only before they are sent
SetContentType(w, ct) == IF w.status = 0 THEN [w EXCEPT !.contentType = ct] ELSE w

\* w.WriteHeader(code): the first call sends the status, later calls send nothing
WriteHeader(w, code) ==
    [w EXCEPT !.headerCalls = Append(@, code),
              !.status = IF @ = 0 THEN code ELSE @]

\* w.Write(data): sends status 200 first if none was sent; the data reaches
\* the client only while the connection works
Write(w, data, ok) ==
    [w EXCEPT !.status = IF @ = 0 THEN StatusOK ELSE @,
              !.body = IF ok THEN Append(@, data) ELSE @]

\* http.Error(w, msg, code)
HttpError(w, msg, code, ok) ==
    Write(WriteHeader(SetContentType(w, "text/plain; charset=utf-8"), code),
          <<"textln", msg>>, ok)

CallFetchAgain(log, url) == Append(Append(log, url), url)

\* the handler calls the fetch capability: one call is recorded in the log
\* of fetches (metadata.go:345, 227)
CallFetch(log, url) == Append(log, url)

\* the url MetadataHandler fetches for a metadata type (metadata.go:332-339)
URLFor(metadataType) ==
    IF metadataType = <<"cluster-name">> THEN ClusterNameURL
    ELSE IF metadataType = <<"cluster-location">> THEN ClusterLocationURL
    ELSE IF metadataType = <<"instance-zone">> THEN InstanceZoneURL
    ELSE ""

ReportedValueFirstSegment(metadataType, metadata) ==
    IF metadataType = <<"instance-zone">>
    THEN LET instanceZoneParts == SplitSlash(metadata)
         IN  IF Len(instanceZoneParts) > 0
             THEN [ok |-> TRUE, value |-> instanceZoneParts[1]]
             ELSE [ok |-> FALSE, value |-> metadata]
    ELSE [ok |-> TRUE, value |-> metadata]

\* the value MetadataHandler reports for the fetched string (metadata.go:351-360);
\* ok is FALSE on the branch that answers 500
ReportedValue(metadataType, metadata) ==
    IF metadataType = <<"instance-zone">>
    THEN LET instanceZoneParts == SplitSlash(metadata)
         IN  IF Len(instanceZoneParts) > 0
             THEN [ok |-> TRUE, value |-> instanceZoneParts[Len(instanceZoneParts)]]
             ELSE [ok |-> FALSE, value |-> metadata]
    ELSE [ok |-> TRUE, value |-> metadata]

FetchFailureBodyWithCause(e) ==
    <<"textln", [text |-> "Failed to fetch metadata", detail |-> e]>>

\* the body of the 502 answer to a failed fetch (metadata.go:348)
FetchFailureBody(e) == <<"textln", "Failed to fetch metadata">>

\* MetadataHandler's answer once the fetch has returned (v, e) (metadata.go:346-370)
MetadataAnswer(metadataType, v, e, encOk, ok) ==
    IF e.kind # "nil"
    THEN Write(WriteHeader(SetContentType(NewResponse, "text/plain; charset=utf-8"),
                           StatusBadGateway),
               FetchFailureBody(e), ok)
    ELSE LET rep == ReportedValue(metadataType, v)
         IN  IF ~rep.ok
             THEN HttpError(NewResponse, "Unexpected format for instance-zone metadata",
                            StatusInternalServerError, ok)
             ELSE IF ~encOk
             THEN HttpError(NewResponse, "Failed to encode response",
                            StatusInternalServerError, ok)
             ELSE Write(WriteHeader(SetContentType(NewResponse, "application/json"),
                                    StatusOK),
                        <<"json", {<<metadataType, rep.value>>}>>, ok)

\* what a fetch can return while the metadata server is in state up
FetchOutcomes(up) ==
    {[called |-> TRUE, value |-> <<>>, err |-> e] :
        e \in {f \in FetchErrors :
                  up = "unreachable" =>
                     (f.kind = "ContextCancelled"
                      \/ (f.kind = "FailedAfter" /\ f.cause.kind # "status"))}}
    \cup (IF up = "reachable"
          THEN {[called |-> TRUE, value |-> v, err |-> NilError] : v \in Values}
          ELSE {})

\* MetadataHandler serves a request for path p (metadata.go:317-372)
MetadataHandler(p, out, encOk, ok) ==
    /\ handler = "none"
    /\ handler' = "metadata"
    /\ path' = p
    /\ connOk' = ok
    /\ LET pathParts == SplitSlash(TrimSuffixSlash(p))
       IN  IF Len(pathParts) # 4
           THEN /\ resp' = HttpError(NewResponse,
                                     "Invalid request: expected /istio-test/metadata/{type}",
                                     StatusBadRequest, ok)
                /\ UNCHANGED <<fetchCalls, fetched, encodeOk>>
           ELSE IF URLFor(pathParts[4]) = ""
           THEN /\ resp' = HttpError(NewResponse, "Unknown metadata type",
                                     StatusBadRequest, ok)
                /\ UNCHANGED <<fetchCalls, fetched, encodeOk>>
           ELSE /\ fetchCalls' = CallFetch(fetchCalls, URLFor(pathParts[4]))
                /\ fetched' = out
                /\ encodeOk' = IF out.err.kind = "nil" THEN encOk ELSE TRUE
                /\ resp' = MetadataAnswer(pathParts[4], out.value, out.err, encodeOk', ok)
    /\ UNCHANGED <<upstream, fetchVars, healthVars, concVars, confVars, edgeVars>>

\* how a probe by checkMetadataService can end while the metadata server is in
\* state up: the error FetchMetadata returned, checkCtx.Err() and the time taken
ProbeOutcomes(up) ==
    {o \in [err : FetchErrors \cup {ErrContextCancelled("DeadlineExceeded"), NilError},
            ctxErr : {"nil", "Canceled", "DeadlineExceeded"},
            duration : 0..MaxProbeDuration] :
        /\ o.err.kind = "nil" => (up = "reachable" /\ o.ctxErr = "nil")
        /\ o.err.kind = "ContextCancelled" => o.ctxErr = o.err.ctx
        /\ o.err.kind = "ReadingBody" => o.ctxErr = "nil"
        /\ (o.err.kind = "FailedAfter" /\ o.err.cause.kind = "status")
              => up = "reachable"
        /\ o.err.kind = "ReadingBody" => up = "reachable"
        /\ o.ctxErr = "nil" => o.duration < ProbeTimeout
        /\ o.ctxErr = "DeadlineExceeded" => o.duration >= ProbeTimeout}

HealthHTTPStatusDegradedUnavailable(st) ==
    IF st = "healthy" THEN StatusOK ELSE StatusServiceUnavailable

\* the status line for an overall health status (metadata.go:202-208)
HealthHTTPStatus(st) ==
    IF st = "healthy" THEN StatusOK
    ELSE IF st = "degraded" THEN StatusOK
    ELSE StatusServiceUnavailable

\* the http_server check (metadata.go:182-187)
HTTPServerCheck ==
    [status |-> "healthy", message |-> "HTTP server is responding",
     detail |-> NilError, duration |-> 0]

\* the HealthResponse that is serialized, without its timestamps, uptime and
\* durations (metadata.go:169-190)
HealthResponse(chk, st) ==
    [status |-> st,
     version |-> "1.0.0",
     checks |-> [n \in {"metadata_service", "http_server"} |->
                    LET c == IF n = "metadata_service" THEN chk ELSE HTTPServerCheck
                    IN  [status |-> c.status, message |-> c.message, detail |-> c.detail]]]

EnhancedHealthResponseHeaderFirst(out, ord, encOk, ok) ==
    LET chk == CheckResult(out.err, out.ctxErr, out.duration)
        statuses == [n \in {"metadata_service", "http_server"} |->
                        IF n = "metadata_service" THEN chk.status
                        ELSE HTTPServerCheck.status]
        st == determineOverallHealth(statuses, ord)
        sent == WriteHeader(SetContentType(NewResponse, "application/json"),
                            HealthHTTPStatus(st))
    IN  IF ~encOk
        THEN HttpError(sent, "Failed to encode health response",
                       StatusInternalServerError, ok)
        ELSE Write(sent, <<"json", HealthResponse(chk, st)>>, ok)

\* what EnhancedHealthCheckHandler writes for the probe outcome out, the map
\* iteration order ord and the outcome of json.Marshal (metadata.go:177-213)
EnhancedHealthResponse(out, ord, encOk, ok) ==
    LET chk == CheckResult(out.err, out.ctxErr, out.duration)
        statuses == [n \in {"metadata_service", "http_server"} |->
                        IF n = "metadata_service" THEN chk.status
                        ELSE HTTPServerCheck.status]
        st == determineOverallHealth(statuses, ord)
    IN  IF ~encOk
        THEN HttpError(NewResponse, "Failed to encode health response",
                       StatusInternalServerError, ok)
        ELSE Write(WriteHeader(SetContentType(NewResponse, "application/json"),
                               HealthHTTPStatus(st)),
                   <<"json", HealthResponse(chk, st)>>, ok)

\* EnhancedHealthCheckHandler serves a request (metadata.go:165-218), the
\* probe it runs ending as out
EnhancedHealthCheckHandler(out, ord, encOk, ok) ==
    /\ handler = "none"
    /\ handler' = "health"
    /\ connOk' = ok
    /\ encodeOk' = encOk
    /\ mode' = "probe"
    /\ pc' = "done"
    /\ err' = out.err
    /\ ctxErr' = out.ctxErr
    /\ now' = out.duration
    /\ check' = CheckResult(out.err, out.ctxErr, out.duration)
    /\ fetchCalls' = CallFetch(fetchCalls, ClusterNameURL)
    /\ fetched' = [called |-> TRUE, value |-> <<>>, err |-> out.err]
    /\ checks' = [n \in {"metadata_service", "http_server"} |->
                     IF n = "metadata_service" THEN check'.status
                     ELSE HTTPServerCheck.status]
    /\ order' = ord
    /\ overall' = determineOverallHealth(checks', ord)
    /\ resp' = EnhancedHealthResponse(out, ord, encOk, ok)
    /\ UNCHANGED <<policy, urlValid, ctxAtCall, attempt, retryDelay, lastErr, remaining,
                   inflight, requests, sleeps, outcomes, result, upstream, path,
                   concVars, confVars, edgeVars>>

BasicHealthResponseViaError(ok) == HttpError(NewResponse, "OK", StatusOK, ok)

\* what HealthCheckHandler writes (metadata.go:154-162)
BasicHealthResponse(ok) ==
    LET sent == Write(WriteHeader(SetContentType(NewResponse, "text/plain; charset=utf-8"),
                                  StatusOK),
                      <<"text", "OK">>, ok)
    IN  IF ok
        THEN sent
        ELSE HttpError(sent, "Failed to write response", StatusInternalServerError, ok)

\* HealthCheckHandler serves a request
HealthCheckHandler(ok) ==
    /\ handler = "none"
    /\ handler' = "basic"
    /\ connOk' = ok
    /\ resp' = BasicHealthResponse(ok)
    /\ UNCHANGED <<upstream, path, fetchCalls, fetched, encodeOk, fetchVars, healthVars,
                   concVars, confVars, edgeVars>>

HTTPInit ==
    /\ handler = "none"
    /\ upstream \in {"reachable", "unreachable"}
    /\ path = <<>>
    /\ fetchCalls = <<>>
    /\ fetched = NoFetch
    /\ encodeOk = TRUE
    /\ connOk = TRUE
    /\ resp = NewResponse
    /\ FetchIdle
    /\ HealthIdle
    /\ ConcIdle
    /\ ConfIdle
    /\ EdgeIdle

\* a request is served once; which handler serves it is the route's choice
HTTPNext ==
    \/ /\ handler = "none"
       /\ \E p \in Paths, out \in FetchOutcomes(upstream),
             encOk \in BOOLEAN, ok \in BOOLEAN :
             MetadataHandler(p, out, encOk, ok)
    \/ /\ handler = "none"
       /\ \E out \in ProbeOutcomes(upstream),
             ord \in VisitOrders({"metadata_service", "http_server"}),
             encOk \in BOOLEAN, ok \in BOOLEAN :
             EnhancedHealthCheckHandler(out, ord, encOk, ok)
    \/ /\ handler = "none"
       /\ \E ok \in BOOLEAN : HealthCheckHandler(ok)

SpecHTTP == HTTPInit /\ [][HTTPNext]_vars

----------------------------------------------------------------------------
(* Concurrent calls of FetchMetadata on one Client *)

MaxCalls == 2

\* the policies of the shared client
ConcPolicies ==
    {p \in Policies : p.baseRetryDelay = 1 /\ p.mulNum = 2 /\ p.mulDen = 1}

\* what one attempt can meet
ConcOutcomes ==
    {TransportOutcome, ResponseOutcome(StatusOK, "a", TRUE),
     ResponseOutcome(500, "a", TRUE), ResponseOutcome(404, "a", TRUE)}

\* a call that has not been made
NoCall ==
    [pc |-> "idle", attempt |-> 0, retryDelay |-> 0, requests |-> 0,
     sleeps |-> <<>>, outcomes |-> <<>>]

FrameShared(i) == 1

\* where call i keeps retryDelay and attempt: they are locals of the call
\* (metadata.go:58, 60)
Frame(i) == i

\* call i enters FetchMetadata: retryDelay := c.baseRetryDelay, attempt := 0
ConcCall(i) ==
    /\ calls[i].pc = "idle"
    /\ calls' = [calls EXCEPT ![i].pc = "loop",
                              ![Frame(i)].retryDelay = client.baseRetryDelay,
                              ![Frame(i)].attempt = 0]
    /\ UNCHANGED <<client, fetchVars, healthVars, httpVars, confVars, edgeVars>>

\* call i finds the loop condition attempt < c.maxRetries false
ConcLoopExit(i) ==
    /\ calls[i].pc = "loop"
    /\ ~(calls[Frame(i)].attempt < client.maxRetries)
    /\ calls' = [calls EXCEPT ![i].pc = "done"]
    /\ UNCHANGED <<client, fetchVars, healthVars, httpVars, confVars, edgeVars>>

\* call i makes one attempt that ends as o, and returns or goes to sleep
\* (metadata.go:60-120, with a live context and a valid url)
ConcAttempt(i, o) ==
    /\ calls[i].pc = "loop"
    /\ calls[Frame(i)].attempt < client.maxRetries
    /\ LET retry == /\ AttemptsRemain(client, calls[Frame(i)].attempt)
                    /\ \/ o.kind = "transport"
                       \/ (o.status # StatusOK /\ Retryable(o.status))
       IN  calls' = [calls EXCEPT
                        ![i].requests = @ + 1,
                        ![i].outcomes = Append(@, o),
                        ![i].sleeps = IF retry
                                      THEN Append(@, calls[Frame(i)].retryDelay)
                                      ELSE @,
                        ![i].pc = IF retry THEN "sleep" ELSE "done"]
    /\ UNCHANGED <<client, fetchVars, healthVars, httpVars, confVars, edgeVars>>

\* time.Sleep of call i returns; its delay grows and its loop continues
ConcSleepDone(i) ==
    /\ calls[i].pc = "sleep"
    /\ calls' = [calls EXCEPT
                    ![i].pc = "loop",
                    ![Frame(i)].retryDelay = NextDelay(client, calls[Frame(i)].retryDelay),
                    ![Frame(i)].attempt = calls[Frame(i)].attempt + 1]
    /\ UNCHANGED <<client, fetchVars, healthVars, httpVars, confVars, edgeVars>>

ConcInit ==
    /\ client \in ConcPolicies
    /\ calls = [i \in 1..MaxCalls |-> NoCall]
    /\ FetchIdle
    /\ HealthIdle
    /\ HttpIdle
    /\ ConfIdle
    /\ EdgeIdle

ConcNext ==
    \E i \in 1..MaxCalls :
        \/ ConcCall(i)
        \/ ConcLoopExit(i)
        \/ \E o \in ConcOutcomes : ConcAttempt(i, o)
        \/ ConcSleepDone(i)

SpecConc == ConcInit /\ [][ConcNext]_vars

----------------------------------------------------------------------------
(* config.Load and the Client that main builds from it *)

\* the defaults of Load, durations in milliseconds
DefaultMaxRetries == 3
DefaultBaseRetryDelay == 100
DefaultMaxRetryDelay == 2000
DefaultRetryMultiplier == <<2, 1>>

MillisPerSecond == 1000

\* values of the environment variables, as strings of characters
IntStrings ==
    {<<>>, <<"x">>, <<"0">>, <<"-", "1">>, <<"1">>, <<"5">>, <<"1", "0">>}

DurationStrings ==
    {<<>>, <<"x">>, <<"0">>, <<"0", "s">>, <<"-", "1", "s">>, <<"5">>,
     <<"5", "0", "m", "s">>, <<"1", "s">>, <<"3", "s">>}

FloatStrings ==
    {<<>>, <<"x">>, <<"0">>, <<"-", "1">>, <<"0", ".", "5">>, <<"1", ".", "5">>, <<"3">>}

Digits == {"0", "1", "2", "3", "4", "5", "6", "7", "8", "9"}

DigitValue(c) ==
    CASE c = "0" -> 0 [] c = "1" -> 1 [] c = "2" -> 2 [] c = "3" -> 3 [] c = "4" -> 4
      [] c = "5" -> 5 [] c = "6" -> 6 [] c = "7" -> 7 [] c = "8" -> 8 [] c = "9" -> 9

IsDigits(s) == Len(s) > 0 /\ \A i \in 1..Len(s) : s[i] \in Digits

\* the number a string of digits denotes
RECURSIVE Decimal(_)
Decimal(s) ==
    IF Len(s) = 0 THEN 0
    ELSE 10 * Decimal(SubSeq(s, 1, Len(s) - 1)) + DigitValue(s[Len(s)])

RECURSIVE PowerOfTen(_)
PowerOfTen(n) == IF n = 0 THEN 1 ELSE 10 * PowerOfTen(n - 1)

\* a leading sign and what follows it
Sign(s) == IF Len(s) > 0 /\ s[1] = "-" THEN -1 ELSE 1

Unsigned(s) == IF Len(s) > 0 /\ s[1] \in {"-", "+"} THEN Tail(s) ELSE s

\* strconv.Atoi
Atoi(s) ==
    IF IsDigits(Unsigned(s))
    THEN [ok |-> TRUE, value |-> Sign(s) * Decimal(Unsigned(s))]
    ELSE [ok |-> FALSE, value |-> 0]

\* time.ParseDuration, in milliseconds, for one whole number with the unit ms
\* or s, or the string 0
ParseDuration(s) ==
    LET u == Unsigned(s)
        n == Cardinality({i \in 1..Len(u) : \A j \in 1..i : u[j] \in Digits})
        number == SubSeq(u, 1, n)
        unit == SubSeq(u, n + 1, Len(u))
    IN  IF u = <<"0">> THEN [ok |-> TRUE, value |-> 0]
        ELSE IF n > 0 /\ unit = <<"m", "s">>
        THEN [ok |-> TRUE, value |-> Sign(s) * Decimal(number)]
        ELSE IF n > 0 /\ unit = <<"s">>
        THEN [ok |-> TRUE, value |-> Sign(s) * Decimal(number) * MillisPerSecond]
        ELSE [ok |-> FALSE, value |-> 0]

\* strconv.ParseFloat for digits with an optional fraction, as the ratio
\* <<numerator, denominator>>
ParseFloat(s) ==
    LET u == Unsigned(s)
        dots == {i \in 1..Len(u) : u[i] = "."}
        dot == IF dots = {} THEN Len(u) + 1 ELSE CHOOSE i \in dots : TRUE
        whole == SubSeq(u, 1, dot - 1)
        fraction == SubSeq(u, dot + 1, Len(u))
    IN  IF Cardinality(dots) <= 1 /\ IsDigits(whole \o fraction)
        THEN [ok |-> TRUE,
              value |-> <<Sign(s) * Decimal(whole \o fraction), PowerOfTen(Len(fraction))>>]
        ELSE [ok |-> FALSE, value |-> <<0, 1>>]

\* config.go:167-177
getInt(value, defaultValue) ==
    IF value # <<>> /\ Atoi(value).ok /\ Atoi(value).value >= 0
    THEN Atoi(value).value
    ELSE defaultValue

\* config.go:155-165
getDuration(value, defaultValue) ==
    IF value # <<>> /\ ParseDuration(value).ok /\ ParseDuration(value).value > 0
    THEN ParseDuration(value).value
    ELSE defaultValue

\* config.go:179-189
getFloat(value, defaultValue) ==
    IF value # <<>> /\ ParseFloat(value).ok /\ ParseFloat(value).value[1] > 0
    THEN ParseFloat(value).value
    ELSE defaultValue

\* the environments main can start in
Environments ==
    [METADATA_MAX_RETRIES : IntStrings,
     METADATA_BASE_RETRY_DELAY : DurationStrings,
     METADATA_MAX_RETRY_DELAY : DurationStrings,
     METADATA_RETRY_MULTIPLIER : FloatStrings]

\* config.Load, the Metadata part (config.go:118-124)
Load ==
    /\ env # <<>>
    /\ conf = <<>>
    /\ conf' = [MaxRetries |-> getInt(env.METADATA_MAX_RETRIES, DefaultMaxRetries),
                BaseRetryDelay |-> getDuration(env.METADATA_BASE_RETRY_DELAY,
                                               DefaultBaseRetryDelay),
                MaxRetryDelay |-> getDuration(env.METADATA_MAX_RETRY_DELAY,
                                              DefaultMaxRetryDelay),
                RetryMultiplier |-> getFloat(env.METADATA_RETRY_MULTIPLIER,
                                             DefaultRetryMultiplier)]
    /\ UNCHANGED <<env, built, fetchVars, healthVars, httpVars, concVars, edgeVars>>

\* main builds the metadata client (main.go:52-59, metadata.go:37-45)
NewClient ==
    /\ conf # <<>>
    /\ built = <<>>
    /\ built' = [maxRetries |-> conf.MaxRetries,
                 baseRetryDelay |-> conf.BaseRetryDelay,
                 maxRetryDelay |-> conf.MaxRetryDelay,
                 mulNum |-> conf.RetryMultiplier[1],
                 mulDen |-> conf.RetryMultiplier[2]]
    /\ UNCHANGED <<env, conf, fetchVars, healthVars, httpVars, concVars, edgeVars>>

ConfigInit ==
    /\ env \in Environments
    /\ conf = <<>>
    /\ built = <<>>
    /\ FetchIdle
    /\ HealthIdle
    /\ HttpIdle
    /\ ConcIdle
    /\ EdgeIdle

ConfigNext == Load \/ NewClient

SpecConfig == ConfigInit /\ [][ConfigNext]_vars

----------------------------------------------------------------------------
(* security.SecureHandlerWithOptions *)

MaxAllowed == 2

StatusMethodNotAllowed == 405

Methods == {"GET", "HEAD", "POST", "DELETE"}

\* the allowedMethods lists a handler is wrapped with
AllowedLists == UNION {[1..k -> Methods] : k \in 0..MaxAllowed}

SecurityHeadersOptions ==
    [COEP : {"", "require-corp"},
     COOP : {"", "same-origin-allow-popups"},
     CORP : {"", "cross-origin"},
     EnableStrictCSP : BOOLEAN,
     CacheControl : {"", "no-store"}]

\* the requests to a secured handler; inner is the status the wrapped handler sends
SecureRequests ==
    [method : Methods, allowedMethods : AllowedLists, options : SecurityHeadersOptions,
     inner : {StatusOK, StatusBadGateway}]

\* an http.Header without entries; a header maps a name to its list of values
NoHeaders == [n \in {} |-> <<>>]

HeaderAdd(h, name, value) ==
    [n \in DOMAIN h \cup {name} |->
        IF n = name
        THEN (IF name \in DOMAIN h THEN h[name] ELSE <<>>) \o <<value>>
        ELSE h[n]]

\* http.Header.Set: the name gets the one value
HeaderSet(h, name, value) ==
    [n \in DOMAIN h \cup {name} |-> IF n = name THEN <<value>> ELSE h[n]]

\* security.setSecurityHeadersWithOptions (part_001:155-195)
setSecurityHeadersWithOptions(h, options) ==
    LET h1 == HeaderSet(h, "X-Content-Type-Options", "nosniff")
        h2 == HeaderSet(h1, "X-Frame-Options", "DENY")
        h3 == HeaderSet(h2, "X-XSS-Protection", "1; mode=block")
        h4 == HeaderSet(h3, "Referrer-Policy", "strict-origin-when-cross-origin")
        h5 == HeaderSet(h4, "X-Permitted-Cross-Domain-Policies", "none")
        h6 == HeaderSet(h5, "Server", "istio-test")
        h7 == IF options.EnableStrictCSP
              THEN HeaderSet(h6, "Content-Security-Policy",
                             "default-src 'none'; frame-ancestors 'none'")
              ELSE HeaderSet(h6, "Content-Security-Policy",
                             "default-src 'self'; frame-ancestors 'none'")
        h8 == IF options.CacheControl # ""
              THEN HeaderSet(h7, "Cache-Control", options.CacheControl)
              ELSE HeaderSet(h7, "Cache-Control",
                             "no-cache, no-store, must-revalidate, private")
        h9 == HeaderSet(h8, "Pragma", "no-cache")
        h10 == HeaderSet(h9, "Expires", "0")
        h11 == IF options.COEP # ""
               THEN HeaderSet(h10, "Cross-Origin-Embedder-Policy", options.COEP)
               ELSE h10
        h12 == IF options.COOP # ""
               THEN HeaderSet(h11, "Cross-Origin-Opener-Policy", options.COOP)
               ELSE h11
    IN  IF options.CORP # ""
        THEN HeaderSet(h12, "Cross-Origin-Resource-Policy", options.CORP)
        ELSE h12

\* security.joinMethods: the methods with ", " between them, as a string of
\* tokens (part_001:198-208)
RECURSIVE joinMethods(_)
joinMethods(methods) ==
    IF Len(methods) = 0 THEN <<>>
    ELSE IF Len(methods) = 1 THEN <<methods[1]>>
    ELSE joinMethods(SubSeq(methods, 1, Len(methods) - 1))
            \o <<", ", methods[Len(methods)]>>

MethodAllowedFirstOnly(method, allowedMethods) ==
    Len(allowedMethods) > 0 /\ allowedMethods[1] = method

\* the loop over allowedMethods (part_001:126-132)
MethodAllowed(method, allowedMethods) ==
    \E i \in 1..Len(allowedMethods) : allowedMethods[i] = method

\* SecurityMiddlewareFuncWithOptions around the inner handler (part_001:73-82):
\* the headers are set, then the inner handler runs and answers
SecurityMiddlewareFuncWithOptions(w, r) ==
    LET h == setSecurityHeadersWithOptions(w.headers, r.options)
    IN  [w EXCEPT !.headers = HeaderSet(h, "Content-Type", "application/json"),
                  !.atInner = Append(@, h),
                  !.innerCalls = @ + 1,
                  !.status = r.inner]

\* MethodValidationMiddlewareFuncWithOptions around next (part_001:122-146)
MethodValidationMiddlewareFuncWithOptions(w, r) ==
    IF ~MethodAllowed(r.method, r.allowedMethods)
    THEN LET h1 == setSecurityHeadersWithOptions(w.headers, r.options)
             h2 == HeaderSet(h1, "Allow", joinMethods(r.allowedMethods))
             h3 == HeaderSet(h2, "Content-Type", "text/plain; charset=utf-8")
             h4 == HeaderSet(h3, "X-Content-Type-Options", "nosniff")
         IN  [w EXCEPT !.headers = h4,
                       !.status = StatusMethodNotAllowed,
                       !.body = "Method Not Allowed"]
    ELSE SecurityMiddlewareFuncWithOptions(
             [w EXCEPT !.headers = setSecurityHeadersWithOptions(w.headers, r.options)], r)

\* a response to which nothing has been written
NoSecResponse ==
    [status |-> 0, headers |-> NoHeaders, body |-> "", innerCalls |-> 0, atInner |-> <<>>]

\* a handler built by SecureHandlerWithOptions serves the request (part_001:216-218)
SecureHandlerWithOptions ==
    /\ sresp = <<>>
    /\ sresp' = MethodValidationMiddlewareFuncWithOptions(NoSecResponse, sreq)
    /\ UNCHANGED <<sreq, fetchVars, healthVars, httpVars, concVars, confVars, redactVars,
                   logVars, mainVars>>

SecureInit ==
    /\ sreq \in SecureRequests
    /\ sresp = <<>>
    /\ RedactIdle
    /\ LogIdle
    /\ MainIdle
    /\ FetchIdle
    /\ HealthIdle
    /\ HttpIdle
    /\ ConcIdle
    /\ ConfIdle

SecureNext == SecureHandlerWithOptions

SpecSecure == SecureInit /\ [][SecureNext]_vars

----------------------------------------------------------------------------
(* observability.redactRequestFields *)

MaxParams == 2

\* the user agent is cut to this many characters (observability.go:293)
MaxUserAgent == 100

\* strings are sequences of tokens.  A raw query is a sequence of key=value
\* pairs; the value "%zz" stands for text that url.ParseQuery rejects
QueryKeys == {"page", "limit", "token"}

QueryValues == {"1", "abc", "%zz"}

RawQueries == UNION {[1..k -> QueryKeys \X QueryValues] : k \in 0..MaxParams}

\* client addresses: IPv4 addresses, IPv6 addresses, and other text
Addresses ==
    {<<"10", ".", "1", ".", "2", ".", "3">>, <<"10", ".", "7", ".", "8", ".", "9">>,
     <<"192", ".", "1", ".", "2", ".", "3">>, <<"10", ".", "1", ".", "2">>,
     <<"2001", ":", "db8", ":", ":", "1">>}

\* n times the character c
Repeat(c, n) == [i \in 1..n |-> c]

UserAgents ==
    {Repeat("A", n) \o t : n \in {0, MaxUserAgent - 1, MaxUserAgent},
                           t \in {<<>>, <<"x">>, <<"y">>, <<"x", "y">>}}

\* the requests given to redactRequestFields: forwardedFor is the list in
\* X-Forwarded-For and realIP the address in X-Real-IP (empty: no header),
\* remoteHost the host of RemoteAddr
RedactRequests ==
    [redaction : BOOLEAN,
     rawQuery : RawQueries,
     forwardedFor : {<<>>} \cup {<<a>> : a \in Addresses},
     realIP : {<<>>, <<"192", ".", "1", ".", "2", ".", "3">>},
     remoteHost : {<<"10", ".", "1", ".", "2", ".", "3">>},
     userAgent : UserAgents]

\* url.ParseQuery: the values of each key in order of appearance; a pair that
\* cannot be unescaped is dropped and makes the result an error
ParseQuery(q) ==
    [ok |-> \A i \in 1..Len(q) : q[i][2] # "%zz",
     keys |-> {q[i][1] : i \in {j \in 1..Len(q) : q[j][2] # "%zz"}},
     values |-> [k \in QueryKeys |->
                    LET idx == {j \in 1..Len(q) : q[j][1] = k /\ q[j][2] # "%zz"}
                        nth[n \in 0..Len(q)] ==
                            IF n = 0 THEN <<>>
                            ELSE IF n \in idx THEN Append(nth[n - 1], q[n][2])
                            ELSE nth[n - 1]
                    IN  nth[Len(q)]]]

\* the position of a key in sorted order
KeyRank(k) == CASE k = "limit" -> 1 [] k = "page" -> 2 [] k = "token" -> 3

\* url.QueryEscape of a value
QueryEscape(v) == IF v = "<redacted>" THEN "%3Credacted%3E" ELSE v

\* url.Values.Encode: key=value pairs, the keys sorted
Encode(keys, values) ==
    LET upTo[r \in 0..3] ==
            IF r = 0 THEN <<>>
            ELSE LET ks == {k \in keys : KeyRank(k) = r}
                 IN  IF ks = {} THEN upTo[r - 1]
                     ELSE LET k == CHOOSE x \in ks : TRUE
                          IN  upTo[r - 1]
                                 \o [i \in 1..Len(values[k]) |->
                                        <<k, QueryEscape(values[k][i])>>]
    IN  upTo[3]

AllowlistedWithToken(key) == key = "page" \/ key = "limit" \/ key = "token"

\* observability.go:269
Allowlisted(key) == key = "page" \/ key = "limit"

\* the query part of redactRequestFields (observability.go:261-277)
SanitizeQuery(rawQuery) ==
    IF rawQuery = <<>> THEN <<>>
    ELSE LET parsed == ParseQuery(rawQuery)
         IN  IF ~parsed.ok THEN <<<<"<invalid_query>", "">>>>
             ELSE Encode(parsed.keys,
                         [k \in QueryKeys |->
                             IF Allowlisted(k) THEN parsed.values[k]
                             ELSE <<"<redacted>">>])

\* strings.Split(s, sep)
RECURSIVE Split(_, _)
Split(s, sep) ==
    IF \A i \in 1..Len(s) : s[i] # sep
    THEN <<s>>
    ELSE LET i == CHOOSE j \in 1..Len(s) :
                      s[j] = sep /\ \A k \in 1..(j - 1) : s[k] # sep
         IN  <<SubSeq(s, 1, i - 1)>> \o Split(SubSeq(s, i + 1, Len(s)), sep)

Contains(s, c) == \E i \in 1..Len(s) : s[i] = c

\* observability.getClientIP (observability.go:196-217)
getClientIP(r) ==
    IF r.forwardedFor # <<>> THEN r.forwardedFor[1]
    ELSE IF r.realIP # <<>> THEN r.realIP
    ELSE r.remoteHost

\* the address part of redactRequestFields (observability.go:280-289)
SanitizeIP(clientIP) ==
    IF Contains(clientIP, ".") /\ ~Contains(clientIP, ":")
          /\ Len(Split(clientIP, ".")) = 4
    THEN Split(clientIP, ".")[1] \o <<".", "0", ".", "0", ".", "0">>
    ELSE <<"redacted">>

\* the user agent part of redactRequestFields (observability.go:292-299)
SanitizeUserAgent(userAgent) ==
    LET cut == IF Len(userAgent) > MaxUserAgent
               THEN SubSeq(userAgent, 1, MaxUserAgent)
               ELSE userAgent
    IN  IF cut = <<>> THEN <<"<redacted>">> ELSE cut

\* observability.redactRequestFields (observability.go:253-302)
redactRequestFields(r) ==
    IF ~r.redaction
    THEN [query |-> r.rawQuery, clientIP |-> getClientIP(r), userAgent |-> r.userAgent]
    ELSE [query |-> SanitizeQuery(r.rawQuery),
          clientIP |-> SanitizeIP(getClientIP(r)),
          userAgent |-> SanitizeUserAgent(r.userAgent)]

\* redactRequestFields is called on the request
RedactRequestFields ==
    /\ redacted = <<>>
    /\ redacted' = redactRequestFields(rreq)
    /\ UNCHANGED <<rreq, fetchVars, healthVars, httpVars, concVars, confVars, secVars,
                   logVars, mainVars>>

RedactInit ==
    /\ rreq \in RedactRequests
    /\ redacted = <<>>
    /\ FetchIdle
    /\ HealthIdle
    /\ HttpIdle
    /\ ConcIdle
    /\ ConfIdle
    /\ SecIdle
    /\ LogIdle
    /\ MainIdle

RedactNext == RedactRequestFields

SpecRedact == RedactInit /\ [][RedactNext]_vars

----------------------------------------------------------------------------
(* observability.RequestLoggingMiddleware and responseWrapper *)

MaxHandlerCalls == 2
MaxBody == 2
MaxClock == 2

StatusNotFound == 404

\* the writer calls of a handler: WriteHeader(code), and Write of len bytes
\* with what the handler does when the write fails
WriteHeaderCall(code) == [op |-> "WriteHeader", code |-> code, len |-> 0, onError |-> "none"]

WriteCall(len, onError) == [op |-> "Write", code |-> 0, len |-> len, onError |-> onError]

\* http.Error(w, msg, code): WriteHeader(code), then the message is printed
\* to w and the outcome of that write is dropped
HttpErrorCalls(code, len) == <<WriteHeaderCall(code), WriteCall(len, "ignore")>>

BodyLens == 1..MaxBody

\* metadata.HealthCheckHandler (metadata.go:154-162): WriteHeader(200), then
\* Write("OK"), and http.Error(500) when that write fails
HealthCheckProgram == <<WriteHeaderCall(StatusOK), WriteCall(2, "httpError")>>

\* the handlers main registers, each with the writer calls of one of its paths
RepoHandlers ==
    {[name |-> "HealthCheckHandler", prog |-> HealthCheckProgram]}
    \cup {[name |-> "MetadataHandler", prog |-> HttpErrorCalls(c, n)] :
            c \in {StatusBadRequest, StatusBadGateway, StatusInternalServerError},
            n \in BodyLens}
    \cup {[name |-> "MetadataHandler",
           prog |-> <<WriteHeaderCall(StatusOK), WriteCall(n, "ignore")>>] : n \in BodyLens}
    \cup {[name |-> "EnhancedHealthCheckHandler", prog |-> HttpErrorCalls(StatusInternalServerError, n)] :
            n \in BodyLens}
    \cup {[name |-> "EnhancedHealthCheckHandler",
           prog |-> <<WriteHeaderCall(c), WriteCall(n, "ignore")>>] :
            c \in {StatusOK, StatusServiceUnavailable}, n \in BodyLens}
    \cup {[name |-> "NotFoundHandler", prog |-> HttpErrorCalls(StatusNotFound, n)] : n \in BodyLens}
    \cup {[name |-> "MethodValidationMiddleware", prog |-> HttpErrorCalls(StatusMethodNotAllowed, n)] :
            n \in BodyLens}

\* any other handler given to the middleware: up to MaxHandlerCalls writer calls
OtherCalls ==
    {WriteHeaderCall(c) : c \in {StatusOK, StatusNotFound}}
    \cup {WriteCall(n, "ignore") : n \in BodyLens}

OtherHandlers ==
    {[name |-> "other", prog |-> p] :
        p \in UNION {[1..k -> OtherCalls] : k \in 0..MaxHandlerCalls}}

\* the request ID headers of a request, "" when absent
RequestIDHeaders ==
    [xRequestID : {"", "a"}, xCorrelationID : {"", "b"}, xTraceID : {"", "c"}]

LogRequests == [headers : RequestIDHeaders, handler : RepoHandlers \cup OtherHandlers]

\* observability.getRequestID at time t (observability.go:220-235)
getRequestID(r, t) ==
    IF r.headers.xRequestID # "" THEN <<r.headers.xRequestID>>
    ELSE IF r.headers.xCorrelationID # "" THEN <<r.headers.xCorrelationID>>
    ELSE IF r.headers.xTraceID # "" THEN <<r.headers.xTraceID>>
    ELSE <<"req_", ToString(t)>>

\* observability.newResponseWrapper (observability.go:81-87)
newResponseWrapper == [statusCode |-> StatusOK, size |-> 0]

\* responseWrapper.WriteHeader (observability.go:90-93): every call records
\* its code
WrapperWriteHeader(rw, code) == [rw EXCEPT !.statusCode = code]

WrapperWriteLast(rw, size) == [rw EXCEPT !.size = size]

\* responseWrapper.Write (observability.go:96-100)
WrapperWrite(rw, size) == [rw EXCEPT !.size = @ + size]

\* http.ResponseWriter.WriteHeader: the first status is the one sent
ConnWriteHeader(c, code) == IF c.status = 0 THEN [c EXCEPT !.status = code] ELSE c

\* http.ResponseWriter.Write: sends 200 when no status was written, then size
\* bytes; a failed write breaks the connection
ConnWrite(c, size, failed) ==
    [ConnWriteHeader(c, StatusOK) EXCEPT !.bytes = @ + size, !.broken = @ \/ failed]

\* the request_start entry (observability.go:141-150)
RequestStartEntry(r, t) ==
    [type |-> "request_start", request_id |-> getRequestID(r, t),
     status |-> 0, response_size |-> 0]

\* the request_complete entry (observability.go:162-174)
RequestCompleteEntry(r, rw, t) ==
    [type |-> "request_complete", request_id |-> getRequestID(r, t),
     status |-> rw.statusCode, response_size |-> rw.size]

\* RequestLoggingMiddleware up to next.ServeHTTP (observability.go:131-153)
LogStart ==
    /\ lpc = "start"
    /\ wrapper' = newResponseWrapper
    /\ logs' = Append(logs, RequestStartEntry(lreq, lclock))
    /\ lprog' = lreq.handler.prog
    /\ lpc' = "handler"
    /\ UNCHANGED <<lreq, lconn, lclock, lhist>>
    /\ UNCHANGED <<fetchVars, healthVars, httpVars, concVars, confVars, secVars, redactVars,
                   mainVars>>

\* the handler calls WriteHeader on the wrapper
HandlerWriteHeader ==
    /\ lpc = "handler"
    /\ lprog # <<>>
    /\ Head(lprog).op = "WriteHeader"
    /\ wrapper' = WrapperWriteHeader(wrapper, Head(lprog).code)
    /\ lconn' = ConnWriteHeader(lconn, Head(lprog).code)
    /\ lhist' = [lhist EXCEPT !.writeHeaders = @ + 1]
    /\ lprog' = Tail(lprog)
    /\ UNCHANGED <<lreq, lpc, logs, lclock>>
    /\ UNCHANGED <<fetchVars, healthVars, httpVars, concVars, confVars, secVars, redactVars,
                   mainVars>>

\* the handler calls Write on the wrapper and size bytes of the data are
\* written: all of them, or fewer with an error
HandlerWrite(size) ==
    /\ lpc = "handler"
    /\ lprog # <<>>
    /\ Head(lprog).op = "Write"
    /\ size <= Head(lprog).len
    /\ lconn.broken => size = 0
    /\ LET failed == size < Head(lprog).len
       IN  /\ lconn' = ConnWrite(lconn, size, failed)
           /\ wrapper' = WrapperWrite(wrapper, size)
           /\ lhist' = [lhist EXCEPT !.written = @ + size, !.writes = @ + 1]
           /\ lprog' = IF failed /\ Head(lprog).onError = "httpError"
                       THEN HttpErrorCalls(StatusInternalServerError, 1)
                       ELSE Tail(lprog)
    /\ UNCHANGED <<lreq, lpc, logs, lclock>>
    /\ UNCHANGED <<fetchVars, healthVars, httpVars, concVars, confVars, secVars, redactVars,
                   mainVars>>

\* next.ServeHTTP returns; the server sends 200 if no status was written
HandlerReturn ==
    /\ lpc = "handler"
    /\ lprog = <<>>
    /\ lconn' = ConnWriteHeader(lconn, StatusOK)
    /\ lpc' = "returned"
    /\ UNCHANGED <<lreq, lprog, wrapper, logs, lclock, lhist>>
    /\ UNCHANGED <<fetchVars, healthVars, httpVars, concVars, confVars, secVars, redactVars,
                   mainVars>>

\* RequestLoggingMiddleware after next.ServeHTTP (observability.go:155-186)
LogComplete ==
    /\ lpc = "returned"
    /\ logs' = Append(logs, RequestCompleteEntry(lreq, wrapper, lclock))
    /\ lpc' = "done"
    /\ UNCHANGED <<lreq, lprog, wrapper, lconn, lclock, lhist>>
    /\ UNCHANGED <<fetchVars, healthVars, httpVars, concVars, confVars, secVars, redactVars,
                   mainVars>>

\* time passes while the request is served
Tick ==
    /\ lpc \in {"handler", "returned"}
    /\ lclock < MaxClock
    /\ lclock' = lclock + 1
    /\ UNCHANGED <<lreq, lpc, lprog, wrapper, lconn, logs, lhist>>
    /\ UNCHANGED <<fetchVars, healthVars, httpVars, concVars, confVars, secVars, redactVars,
                   mainVars>>

LogInit ==
    /\ lreq \in LogRequests
    /\ lpc = "start"
    /\ lprog = <<>>
    /\ wrapper = <<>>
    /\ lconn = [status |-> 0, bytes |-> 0, broken |-> FALSE]
    /\ logs = <<>>
    /\ lclock = 0
    /\ lhist = [writeHeaders |-> 0, writes |-> 0, written |-> 0]
    /\ FetchIdle
    /\ HealthIdle
    /\ HttpIdle
    /\ ConcIdle
    /\ ConfIdle
    /\ SecIdle
    /\ RedactIdle
    /\ MainIdle

LogNext ==
    \/ LogStart
    \/ HandlerWriteHeader
    \/ \E size \in 0..MaxBody : HandlerWrite(size)
    \/ HandlerReturn
    \/ LogComplete
    \/ Tick

SpecLog == LogInit /\ [][LogNext]_vars

----------------------------------------------------------------------------
(* main: serving, signals and shutdown (cmd/http/main.go:92-110) *)

MaxShutdownTimeout == 2
MaxConns == 2
MaxSignals == 2

Signals == {"SIGINT", "SIGTERM"}

\* the capacity of the quit channel (main.go:99)
QuitCapacity == 1

MainConfigs == [shutdownTimeout : 0..MaxShutdownTimeout, canListen : BOOLEAN]

\* the goroutine calls server.ListenAndServe, which binds the port and serves
ListenAndServeStarts ==
    /\ spc = "starting"
    /\ mpc # "exited"
    /\ mconf.canListen
    /\ mhist.shutdowns = 0
    /\ spc' = "serving"
    /\ UNCHANGED <<mconf, mpc, quit, active, timer, mhist>>
    /\ UNCHANGED <<fetchVars, healthVars, httpVars, concVars, confVars, secVars, redactVars,
                   logVars>>

\* server.ListenAndServe returns an error other than ErrServerClosed; the
\* goroutine logs it and ends (main.go:94-96)
ListenAndServeFails ==
    /\ spc = "starting"
    /\ mpc # "exited"
    /\ ~mconf.canListen
    /\ mhist.shutdowns = 0
    /\ spc' = "failed"
    /\ mhist' = [mhist EXCEPT !.errors = @ + 1]
    /\ UNCHANGED <<mconf, mpc, quit, active, timer>>
    /\ UNCHANGED <<fetchVars, healthVars, httpVars, concVars, confVars, secVars, redactVars,
                   logVars>>

\* server.ListenAndServe returns ErrServerClosed after Shutdown was called;
\* the goroutine ends without logging
ListenAndServeClosed ==
    /\ spc \in {"starting", "serving"}
    /\ mpc # "exited"
    /\ mhist.shutdowns > 0
    /\ spc' = "closed"
    /\ UNCHANGED <<mconf, mpc, quit, active, timer, mhist>>
    /\ UNCHANGED <<fetchVars, healthVars, httpVars, concVars, confVars, secVars, redactVars,
                   logVars>>

\* the server accepts a request
RequestBegins ==
    /\ spc = "serving"
    /\ mpc = "waiting"
    /\ active < MaxConns
    /\ active' = active + 1
    /\ UNCHANGED <<mconf, mpc, spc, quit, timer, mhist>>
    /\ UNCHANGED <<fetchVars, healthVars, httpVars, concVars, confVars, secVars, redactVars,
                   logVars>>

\* a request in progress is answered
RequestEnds ==
    /\ mpc # "exited"
    /\ active > 0
    /\ active' = active - 1
    /\ UNCHANGED <<mconf, mpc, spc, quit, timer, mhist>>
    /\ UNCHANGED <<fetchVars, healthVars, httpVars, concVars, confVars, secVars, redactVars,
                   logVars>>

\* the process is sent SIGINT or SIGTERM; signal.Notify puts it into quit
\* unless the channel is full (main.go:99-100)
Signal(sig) ==
    /\ mpc # "exited"
    /\ mhist.signals < MaxSignals
    /\ quit' = IF Len(quit) < QuitCapacity THEN Append(quit, sig) ELSE quit
    /\ mhist' = [mhist EXCEPT !.signals = @ + 1]
    /\ UNCHANGED <<mconf, mpc, spc, active, timer>>
    /\ UNCHANGED <<fetchVars, healthVars, httpVars, concVars, confVars, secVars, redactVars,
                   logVars>>

\* main receives from quit and calls server.Shutdown with the timeout
\* (main.go:101-106)
ReceiveQuit ==
    /\ mpc = "waiting"
    /\ quit # <<>>
    /\ quit' = Tail(quit)
    /\ timer' = mconf.shutdownTimeout
    /\ mhist' = [mhist EXCEPT !.shutdowns = @ + 1]
    /\ mpc' = "shutdown"
    /\ UNCHANGED <<mconf, spc, active>>
    /\ UNCHANGED <<fetchVars, healthVars, httpVars, concVars, confVars, secVars, redactVars,
                   logVars>>

\* the shutdown timeout runs down
TimeoutTick ==
    /\ mpc = "shutdown"
    /\ timer > 0
    /\ timer' = timer - 1
    /\ UNCHANGED <<mconf, mpc, spc, quit, active, mhist>>
    /\ UNCHANGED <<fetchVars, healthVars, httpVars, concVars, confVars, secVars, redactVars,
                   logVars>>

\* server.Shutdown returns: nil when no request is in progress, the context's
\* error, which main logs, when the timeout has run out (main.go:106-108)
ShutdownReturns ==
    /\ mpc = "shutdown"
    /\ active = 0 \/ timer = 0
    /\ mhist' = [mhist EXCEPT !.errors = IF active = 0 THEN @ ELSE @ + 1]
    /\ mpc' = "exiting"
    /\ UNCHANGED <<mconf, spc, quit, active, timer>>
    /\ UNCHANGED <<fetchVars, healthVars, httpVars, concVars, confVars, secVars, redactVars,
                   logVars>>

\* main logs "Server exiting" and returns (main.go:110)
Exit ==
    /\ mpc = "exiting"
    /\ mpc' = "exited"
    /\ UNCHANGED <<mconf, spc, quit, active, timer, mhist>>
    /\ UNCHANGED <<fetchVars, healthVars, httpVars, concVars, confVars, secVars, redactVars,
                   logVars>>

MainInit ==
    /\ mconf \in MainConfigs
    /\ mpc = "waiting"
    /\ spc = "starting"
    /\ quit = <<>>
    /\ active = 0
    /\ timer = 0
    /\ mhist = [signals |-> 0, shutdowns |-> 0, errors |-> 0]
    /\ FetchIdle
    /\ HealthIdle
    /\ HttpIdle
    /\ ConcIdle
    /\ ConfIdle
    /\ SecIdle
    /\ RedactIdle
    /\ LogIdle

\* the steps of the program itself, which the scheduler runs when they can run
MainSteps ==
    \/ ListenAndServeStarts
    \/ ListenAndServeFails
    \/ ListenAndServeClosed
    \/ ReceiveQuit
    \/ TimeoutTick
    \/ ShutdownReturns
    \/ Exit

MainNext ==
    \/ MainSteps
    \/ RequestBegins
    \/ RequestEnds
    \/ \E sig \in Signals : Signal(sig)

\* the program's own steps are taken when they stay enabled; nothing makes a
\* signal arrive or a client finish
SpecMain == MainInit /\ [][MainNext]_vars /\ WF_vars(MainSteps)

----------------------------------------------------------------------------
(* Properties of Client.FetchMetadata *)

Done == pc = "done"

IsTransport(o) == o.kind = "transport"

IsResponse(o, st) == o.kind = "response" /\ o.status = st

AllTransport == \A i \in 1..Len(outcomes) : IsTransport(outcomes[i])

\* base^e for a natural e
RECURSIVE Pow(_, _)
Pow(base, e) == IF e = 0 THEN 1 ELSE base * Pow(base, e - 1)

\* C1: with maxRetries = n >= 1 and a context that is never cancelled, a call
\* in which every attempt fails at transport level issues exactly n requests
\* and returns an error; no call ever issues more than n requests.
C1_ExactlyMaxAttempts ==
    /\ requests <= policy.maxRetries
    /\ (Done /\ policy.maxRetries >= 1 /\ urlValid /\ ctxErr = "nil" /\ AllTransport)
          => (requests = policy.maxRetries /\ Len(outcomes) = policy.maxRetries
              /\ err.kind = "FailedAfter" /\ result = "")

C1_Witness ==
    /\ Done /\ policy.maxRetries = 3 /\ ctxErr = "nil" /\ AllTransport
    /\ requests = 3 /\ err.kind = "FailedAfter"

\* C2 (as stated): the k-th sleep of a call (the sleep before attempt k)
\* lasts min(baseDelay * multiplier^(k-1), maxDelay), for every policy the
\* client can be constructed with; so no sleep is longer than maxDelay.
C2_DelayClosedForm ==
    \A k \in 1..Len(sleeps) :
        LET num == policy.baseRetryDelay * Pow(policy.mulNum, k - 1)
            den == Pow(policy.mulDen, k - 1)
        IN  /\ IF num >= policy.maxRetryDelay * den
               THEN sleeps[k] = policy.maxRetryDelay
               ELSE sleeps[k] * den = num
            /\ sleeps[k] <= policy.maxRetryDelay

\* C3: a non-2xx response is retried if and only if its status is in
\* [500,600) or is 429 and attempts remain; any other non-2xx status ends the
\* call with an error right after that attempt, so a first response of 404
\* means exactly one attempt and no sleep, whatever maxRetries is.
C3_RetryOnlyRetryable ==
    \A i \in 1..Len(outcomes) :
        LET o == outcomes[i]
            retried == Len(sleeps) >= i
        IN  (o.kind = "response" /\ (o.status < 200 \/ o.status >= 300))
               => /\ retried <=> (/\ (o.status \in 500..599 \/ o.status = 429)
                                  /\ i < policy.maxRetries)
                  /\ ~retried => (/\ Done /\ err.kind = "FailedAfter" /\ result = ""
                                  /\ requests = i /\ Len(outcomes) = i
                                  /\ Len(sleeps) = i - 1)

C3_Witness ==
    /\ Done /\ policy.maxRetries = 3 /\ Len(outcomes) = 1
    /\ IsResponse(outcomes[1], 404)
    /\ requests = 1 /\ sleeps = <<>> /\ err.kind = "FailedAfter"

All500Before(n) == \A i \in 1..(n - 1) : IsResponse(outcomes[i], 500)

\* C4: for 1 <= n <= maxRetries, a call whose attempts 1..n-1 receive status
\* 500 and whose attempt n receives a successful response (200 OK, body read
\* in full) returns the body of attempt n with no error after exactly n
\* attempts; and a run of 500 responses shorter than maxRetries never ends the
\* call by itself (only a cancelled context does), so every such n is possible.
C4_SucceedsOnAttemptN ==
    LET n == Len(outcomes)
    IN  /\ (/\ Done /\ n >= 1 /\ All500Before(n)
            /\ IsResponse(outcomes[n], 200) /\ outcomes[n].readOk)
              => (result = outcomes[n].body /\ err = NilError /\ requests = n
                  /\ n <= policy.maxRetries)
        /\ (Done /\ n >= 1 /\ n < policy.maxRetries /\ All500Before(n + 1))
              => err.kind = "ContextCancelled"

C4_Witness ==
    /\ Done /\ policy.maxRetries = 3 /\ Len(outcomes) = 3 /\ All500Before(3)
    /\ IsResponse(outcomes[3], 200) /\ outcomes[3].readOk
    /\ result = outcomes[3].body /\ err = NilError /\ requests = 3

\* C5 (as stated): every response with a status in [200,300), whose body can
\* be read, ends the call with that body as result, no error, and no further
\* attempt.
C5_Any2xxReturnsBody ==
    \A i \in 1..Len(outcomes) :
        (/\ outcomes[i].kind = "response" /\ outcomes[i].status \in 200..299
         /\ outcomes[i].readOk)
           => (/\ Done /\ Len(outcomes) = i /\ requests = i
               /\ result = outcomes[i].body /\ err = NilError)

C7_SleepHonoursContext ==
    [][~(/\ ctxErr # "nil"
         /\ pc' = "sleep"
         /\ (pc # "sleep" \/ remaining' < remaining))]_vars

\* C8 (as stated): an exhausted-retries error always wraps a non-nil cause,
\* which is the failure of the last attempt made, for every maxRetries the
\* client can be constructed with.
C8_WrapsLastCause ==
    (Done /\ err.kind = "FailedAfter")
       => /\ err.cause.kind # "none"
          /\ requests >= 1
          /\ err.cause.attempt = requests
          /\ LET o == outcomes[requests]
             IN  IF o.kind = "transport"
                 THEN err.cause.kind = "transport"
                 ELSE /\ err.cause.kind = "status"
                      /\ err.cause.status = o.status
                      /\ err.cause.body = o.body

\* C10: checkMetadataService classifies the probe: fetch failed with the
\* child context's deadline exceeded -> unhealthy (and then at least the 3
\* seconds of the timeout have passed); fetch failed otherwise, also by
\* cancellation of the parent context -> degraded; fetch succeeded after more
\* than 1 second -> degraded; fetch succeeded within 1 second -> healthy.  A
\* probe that succeeded is never unhealthy.
C10_ProbeClassification ==
    (mode = "probe" /\ Done)
       => /\ check.duration = now
          /\ (err.kind # "nil" /\ ctxErr = "DeadlineExceeded")
                => (check.status = "unhealthy" /\ now >= 3)
          /\ (err.kind # "nil" /\ ctxErr # "DeadlineExceeded")
                => check.status = "degraded"
          /\ (err.kind = "nil" /\ now > 1) => check.status = "degraded"
          /\ (err.kind = "nil" /\ now <= 1) => check.status = "healthy"
          /\ (ctxErr = "Canceled" /\ err.kind # "nil") => check.status = "degraded"

C10_Witness ==
    /\ mode = "probe" /\ Done /\ err.kind = "ContextCancelled"
    /\ ctxErr = "DeadlineExceeded" /\ check.status = "unhealthy" /\ now = 3

----------------------------------------------------------------------------
(* Properties of determineOverallHealth *)

Rank(st) == IF st = "unhealthy" THEN 2 ELSE IF st = "degraded" THEN 1 ELSE 0

\* C9: determineOverallHealth returns the maximum status of its checks under
\* healthy < degraded < unhealthy, whatever the order in which the checks are
\* visited and whatever their names; no checks at all yield healthy.
C9_OverallIsMaximum ==
    overall # "none"
       => /\ overall \in HealthStatuses
          /\ \A n \in DOMAIN checks : Rank(checks[n]) <= Rank(overall)
          /\ (DOMAIN checks # {}) => \E n \in DOMAIN checks : checks[n] = overall
          /\ (DOMAIN checks = {}) => overall = "healthy"
          /\ \A o \in VisitOrders(DOMAIN checks) :
                determineOverallHealth(checks, o) = overall

C9_Witness ==
    /\ overall = "unhealthy"
    /\ Cardinality(DOMAIN checks) = 3
    /\ \E a, b \in DOMAIN checks : checks[a] = "healthy" /\ checks[b] = "degraded"
    /\ checks[order[1]] = "unhealthy"
    /\ checks[order[3]] = "healthy"

----------------------------------------------------------------------------
(* Properties of the handlers *)

\* the response body is the single chunk of the given kind and content
BodyIs(kind, content) ==
    /\ Len(resp.body) = 1
    /\ resp.body[1][1] = kind
    /\ resp.body[1][2] = content

\* the number of slash-delimited segments of a string
SegmentCount(s) == Cardinality({i \in 1..Len(s) : s[i] = "/"}) + 1

\* what follows the last slash of a string
LastSegment(s) ==
    LET slashes == {i \in 1..Len(s) : s[i] = "/"}
        from == IF slashes = {} THEN 1
                ELSE (CHOOSE i \in slashes : \A j \in slashes : j <= i) + 1
    IN  SubSeq(s, from, Len(s))

\* the request path with one trailing slash removed
CleanPath ==
    IF Len(path) > 0 /\ path[Len(path)] = "/" THEN SubSeq(path, 1, Len(path) - 1) ELSE path

KnownTypes == {<<"cluster-name">>, <<"cluster-location">>, <<"instance-zone">>}

\* C11: a serialized response of the enhanced health handler holds a
\* metadata_service check and a healthy http_server check, its overall status
\* is the metadata_service status, and its HTTP status is 200 for healthy and
\* degraded and 503 exactly for unhealthy, which is exactly a probe that failed
\* with its deadline exceeded
C11_EnhancedHealthStatus ==
    (handler = "health" /\ encodeOk) =>
        /\ DOMAIN checks = {"metadata_service", "http_server"}
        /\ checks["http_server"] = "healthy"
        /\ checks["metadata_service"] = check.status
        /\ overall = checks["metadata_service"]
        /\ overall \in {"healthy", "degraded"} => resp.status = StatusOK
        /\ resp.status = StatusServiceUnavailable <=> overall = "unhealthy"
        /\ overall = "unhealthy" <=> (err.kind # "nil" /\ ctxErr = "DeadlineExceeded")
        /\ connOk =>
              /\ Len(resp.body) = 1
              /\ resp.body[1][1] = "json"
              /\ resp.body[1][2].status = overall
              /\ DOMAIN resp.body[1][2].checks = {"metadata_service", "http_server"}
              /\ resp.body[1][2].checks["http_server"].status = "healthy"
              /\ resp.body[1][2].checks["metadata_service"].status = check.status

C11_Witness ==
    /\ handler = "health"
    /\ encodeOk
    /\ connOk
    /\ overall = "degraded"
    /\ resp.status = StatusOK

\* C12: the enhanced health handler writes exactly one status per request; it
\* is 500 when serialization failed, and 200 or 503 only when serialization
\* succeeded
C12_SerializeBeforeStatus ==
    handler = "health" =>
        /\ Len(resp.headerCalls) = 1
        /\ resp.status = resp.headerCalls[1]
        /\ ~encodeOk => (resp.status = StatusInternalServerError
                          /\ resp.contentType # "application/json")
        /\ resp.status \in {StatusOK, StatusServiceUnavailable} => encodeOk

C12_Witness ==
    /\ handler = "health"
    /\ ~encodeOk
    /\ resp.headerCalls = <<StatusInternalServerError>>

\* C13: the basic health handler answers 200 with body OK whatever the state
\* of the metadata server, and fetches nothing
C13_BasicAlwaysOK ==
    handler = "basic" =>
        /\ resp.status = StatusOK
        /\ connOk => BodyIs("text", "OK")
        /\ fetchCalls = <<>>
        /\ ~fetched.called

C13_Witness ==
    /\ handler = "basic"
    /\ upstream = "unreachable"
    /\ connOk
    /\ resp.status = StatusOK

\* C14: MetadataHandler answers 400 with the expected-path message when the
\* path without one trailing slash has not exactly 4 segments, 400 Unknown
\* metadata type when it has 4 and the last is no known type, and goes on to
\* fetch when the last is a known type, with or without one trailing slash
C14_PathValidation ==
    handler = "metadata" =>
        /\ SegmentCount(CleanPath) # 4 =>
              /\ resp.status = StatusBadRequest
              /\ connOk => BodyIs("textln",
                                  "Invalid request: expected /istio-test/metadata/{type}")
              /\ fetchCalls = <<>>
        /\ (SegmentCount(CleanPath) = 4 /\ LastSegment(CleanPath) \notin KnownTypes) =>
              /\ resp.status = StatusBadRequest
              /\ connOk => BodyIs("textln", "Unknown metadata type")
              /\ fetchCalls = <<>>
        /\ (SegmentCount(CleanPath) = 4 /\ LastSegment(CleanPath) \in KnownTypes) =>
              /\ Len(fetchCalls) = 1
              /\ resp.status # StatusBadRequest

C14_Witness ==
    /\ handler = "metadata"
    /\ Len(path) > 0
    /\ path[Len(path)] = "/"
    /\ LastSegment(CleanPath) = <<"cluster-location">>
    /\ Len(fetchCalls) = 1

\* the metadata type a valid request names
RequestedType == LastSegment(CleanPath)

\* the one url of a metadata type
ExpectedURL ==
    IF RequestedType = <<"cluster-name">> THEN ClusterNameURL
    ELSE IF RequestedType = <<"cluster-location">> THEN ClusterLocationURL
    ELSE InstanceZoneURL

\* C15: for a valid request whose fetch succeeds, MetadataHandler answers 200
\* with a JSON object of exactly one key, the requested type, whose value is
\* the fetched string, or for instance-zone its final segment; the fetch went
\* to the one url of the requested type
C15_SuccessBody ==
    (handler = "metadata" /\ fetched.called /\ fetched.err.kind = "nil" /\ encodeOk) =>
        /\ fetchCalls = <<ExpectedURL>>
        /\ resp.status = StatusOK
        /\ resp.headerCalls = <<StatusOK>>
        /\ connOk =>
              /\ Len(resp.body) = 1
              /\ resp.body[1][1] = "json"
              /\ Cardinality(resp.body[1][2]) = 1
              /\ \A kv \in resp.body[1][2] :
                    /\ kv[1] = RequestedType
                    /\ kv[2] = IF RequestedType = <<"instance-zone">>
                               THEN LastSegment(fetched.value)
                               ELSE fetched.value

C15_Witness ==
    /\ handler = "metadata"
    /\ RequestedType = <<"instance-zone">>
    /\ fetched.value = <<"a", "/", "b">>
    /\ connOk
    /\ BodyIs("json", {<<RequestedType, <<"b">>>>})

\* C16: an empty fetched value for instance-zone is answered 500 Unexpected
\* format for instance-zone metadata, never 200
C16_EmptyZoneIs500 ==
    (handler = "metadata" /\ fetched.called /\ fetched.err.kind = "nil"
       /\ RequestedType = <<"instance-zone">> /\ fetched.value = <<>>) =>
        /\ resp.status = StatusInternalServerError
        /\ connOk => BodyIs("textln", "Unexpected format for instance-zone metadata")

\* C17: a fetch error on a valid request is answered 502 Failed to fetch
\* metadata with no JSON body, and the answer is the same for every error
C17_FetchFailureIs502 ==
    (handler = "metadata" /\ fetched.called /\ fetched.err.kind # "nil") =>
        /\ \A e \in FetchErrors :
              MetadataAnswer(RequestedType, fetched.value, e, TRUE, connOk) = resp
        /\ resp.status = StatusBadGateway
        /\ \A i \in 1..Len(resp.body) : resp.body[i][1] # "json"
        /\ connOk => BodyIs("textln", "Failed to fetch metadata")

C17_Witness ==
    /\ handler = "metadata"
    /\ fetched.err.kind = "FailedAfter"
    /\ fetched.err.cause.kind = "status"
    /\ connOk
    /\ resp.status = StatusBadGateway

\* two fetch errors that differ at most in the text they carry
SameButText(e1, e2) ==
    /\ e1.kind = e2.kind
    /\ e1.ctx = e2.ctx
    /\ e1.n = e2.n
    /\ e1.cause.kind = e2.cause.kind
    /\ e1.cause.status = e2.cause.status
    /\ e1.cause.attempt = e2.cause.attempt

\* C18: the body of a response is the same for any two fetch errors that
\* differ only in their text, in all three handlers
C18_BodyIndependentOfErrorText ==
    /\ (handler = "metadata" /\ fetched.called /\ fetched.err.kind # "nil") =>
          \A e \in FetchErrors :
             SameButText(e, fetched.err) =>
                MetadataAnswer(RequestedType, fetched.value, e, encodeOk, connOk).body
                   = resp.body
    /\ (handler = "health" /\ fetched.err.kind # "nil") =>
          \A e \in FetchErrors :
             SameButText(e, fetched.err) =>
                EnhancedHealthResponse([err |-> e, ctxErr |-> ctxErr, duration |-> now],
                                       order, encodeOk, connOk).body
                   = resp.body
    /\ handler = "basic" => resp.body = BasicHealthResponse(connOk).body

----------------------------------------------------------------------------
(* Properties of concurrent calls *)

\* what a call that runs alone under policy p does from attempt a with delay d
\* when its attempts end as outs: the requests it sends, its sleeps, and
\* whether it has returned
RECURSIVE AloneFrom(_, _, _, _)
AloneFrom(p, outs, a, d) ==
    IF ~(a < p.maxRetries)
    THEN [requests |-> 0, sleeps |-> <<>>, done |-> TRUE]
    ELSE IF outs = <<>>
    THEN [requests |-> 0, sleeps |-> <<>>, done |-> FALSE]
    ELSE LET o == Head(outs)
             failed == o.kind = "transport" \/ o.status # 200
             retried == o.kind = "transport" \/ o.status = 429
                           \/ (o.status >= 500 /\ o.status <= 599)
         IN  IF failed /\ retried /\ a + 1 < p.maxRetries
             THEN LET grown == (d * p.mulNum) \div p.mulDen
                      next == IF grown > p.maxRetryDelay THEN p.maxRetryDelay ELSE grown
                      rest == AloneFrom(p, Tail(outs), a + 1, next)
                  IN  [requests |-> 1 + rest.requests,
                       sleeps |-> <<d>> \o rest.sleeps,
                       done |-> rest.done]
             ELSE [requests |-> 1, sleeps |-> <<>>, done |-> TRUE]

Alone(i) == AloneFrom(client, calls[i].outcomes, 0, client.baseRetryDelay)

\* C19: each of the concurrent calls sends the requests and sleeps the delays
\* it would when run alone against the outcomes it met, and no step writes a
\* field of the Client
C19_CallsArePrivate ==
    /\ [](\A i \in DOMAIN calls :
            /\ calls[i].requests = Len(calls[i].outcomes)
            /\ calls[i].requests = Alone(i).requests
            /\ calls[i].sleeps = Alone(i).sleeps
            /\ calls[i].pc = "done" => Alone(i).done
            /\ (Alone(i).done /\ calls[i].pc # "idle" /\ client.maxRetries > 0)
                  => calls[i].pc = "done")
    /\ [][client' = client]_vars

\* both calls retried and slept while the other was running
C19_Witness ==
    /\ DOMAIN calls = 1..MaxCalls
    /\ \A i \in 1..2 : calls[i].pc = "done" /\ Len(calls[i].sleeps) = 2
    /\ calls[1].outcomes # calls[2].outcomes

----------------------------------------------------------------------------
(* Properties of the configuration *)

\* C20: whatever the environment, the policy main builds the Client with has
\* at least one attempt, a positive base delay and a maximum delay that is
\* not below the base delay
C20_BuiltPolicyIsValid ==
    built # <<>> =>
        /\ built.maxRetries >= 1
        /\ built.baseRetryDelay > 0
        /\ built.maxRetryDelay >= built.baseRetryDelay

----------------------------------------------------------------------------
(* Further properties of the handlers and of Client.FetchMetadata *)

\* C25: MetadataHandler calls the fetch capability at most once per request
\* and not at all when it answers 400; the enhanced health handler calls
\* FetchMetadata exactly once per request
C25_NoHandlerRetry ==
    /\ handler = "metadata" =>
          /\ Len(fetchCalls) <= 1
          /\ resp.status = StatusBadRequest => fetchCalls = <<>>
          /\ fetched.called <=> Len(fetchCalls) = 1
    /\ handler = "health" => Len(fetchCalls) = 1
    /\ handler = "basic" => fetchCalls = <<>>

C25_Witness ==
    /\ handler = "metadata"
    /\ fetched.err.kind = "FailedAfter"
    /\ resp.status = StatusBadGateway
    /\ Len(fetchCalls) = 1

\* C26: the N of a "failed after N attempts" error is the number of HTTP
\* attempts the call issued
C26_FailedAfterCountsAttempts ==
    (pc = "done" /\ err.kind = "FailedAfter") => err.n = requests

\* the k-th attempt failed in a way that is retried and was not the last allowed
RetriedAttempt(k) ==
    /\ k < policy.maxRetries
    /\ \/ outcomes[k].kind = "transport"
       \/ /\ outcomes[k].kind = "response"
          /\ outcomes[k].status # 200
          /\ (outcomes[k].status = 429
              \/ (outcomes[k].status >= 500 /\ outcomes[k].status <= 599))

\* C27: in a call whose context is never cancelled, attempts and sleeps
\* alternate, beginning and ending with an attempt: an attempt is sent only
\* when every earlier one has returned and every sleep is over, a sleep
\* follows only a retried attempt, and at the end there is one sleep fewer
\* than there are attempts
C27_AttemptsAndSleepsAlternate ==
    (mode = "fetch" /\ ctxAtCall = "nil" /\ ctxErr = "nil") =>
        /\ requests - Len(outcomes) \in {0, 1}
        /\ pc = "loop" => (Len(sleeps) = requests /\ Len(outcomes) = requests)
        /\ pc = "do" => (Len(sleeps) = requests - 1 /\ Len(outcomes) = requests - 1)
        /\ pc = "sleep" => (Len(sleeps) = requests /\ Len(outcomes) = requests)
        /\ \A k \in 1..Len(sleeps) : RetriedAttempt(k)
        /\ pc = "done" =>
              /\ requests >= 1
              /\ Len(outcomes) = requests
              /\ Len(sleeps) = requests - 1

----------------------------------------------------------------------------
(* Properties of the security middleware *)

\* the methods of the allowedMethods list
AllowedSet == {sreq.allowedMethods[i] : i \in 1..Len(sreq.allowedMethods)}

\* v is the list L joined by ", "
IsJoined(v, L) ==
    /\ Len(v) = IF Len(L) = 0 THEN 0 ELSE 2 * Len(L) - 1
    /\ \A k \in 1..Len(v) : v[k] = IF k % 2 = 1 THEN L[(k + 1) \div 2] ELSE ", "

\* C21: the inner handler of a secured handler runs exactly when the method
\* is in the allowed list; any other method is answered 405 with the Allow
\* header holding the list joined by ", " and the inner handler does not run
C21_MethodValidation ==
    sresp # <<>> =>
        /\ sresp.innerCalls = (IF sreq.method \in AllowedSet THEN 1 ELSE 0)
        /\ sreq.method \in AllowedSet => sresp.status = sreq.inner
        /\ sreq.method \notin AllowedSet =>
              /\ sresp.status = StatusMethodNotAllowed
              /\ "Allow" \in DOMAIN sresp.headers
              /\ Len(sresp.headers["Allow"]) = 1
              /\ IsJoined(sresp.headers["Allow"][1], sreq.allowedMethods)

C21_Witness ==
    /\ sresp # <<>>
    /\ sreq.method = "POST"
    /\ sreq.allowedMethods = <<"GET", "HEAD">>
    /\ sresp.status = StatusMethodNotAllowed
    /\ sresp.headers["Allow"] = <<<<"GET", ", ", "HEAD">>>>

\* the headers every secured response carries
FixedHeaders ==
    [n \in {"X-Content-Type-Options", "X-Frame-Options", "X-XSS-Protection",
            "Referrer-Policy", "X-Permitted-Cross-Domain-Policies", "Server",
            "Pragma", "Expires"} |->
        CASE n = "X-Content-Type-Options" -> "nosniff"
          [] n = "X-Frame-Options" -> "DENY"
          [] n = "X-XSS-Protection" -> "1; mode=block"
          [] n = "Referrer-Policy" -> "strict-origin-when-cross-origin"
          [] n = "X-Permitted-Cross-Domain-Policies" -> "none"
          [] n = "Server" -> "istio-test"
          [] n = "Pragma" -> "no-cache"
          [] n = "Expires" -> "0"]

\* the option that governs a Cross-Origin header
CrossOriginOption ==
    [n \in {"Cross-Origin-Embedder-Policy", "Cross-Origin-Opener-Policy",
            "Cross-Origin-Resource-Policy"} |->
        CASE n = "Cross-Origin-Embedder-Policy" -> sreq.options.COEP
          [] n = "Cross-Origin-Opener-Policy" -> sreq.options.COOP
          [] n = "Cross-Origin-Resource-Policy" -> sreq.options.CORP]

\* h carries the security headers of the request's options, each once
CarriesSecurityHeaders(h) ==
    /\ \A n \in DOMAIN FixedHeaders : n \in DOMAIN h /\ h[n] = <<FixedHeaders[n]>>
    /\ "Content-Security-Policy" \in DOMAIN h /\ Len(h["Content-Security-Policy"]) = 1
    /\ "Cache-Control" \in DOMAIN h /\ Len(h["Cache-Control"]) = 1
    /\ \A n \in DOMAIN CrossOriginOption :
          /\ n \in DOMAIN h <=> CrossOriginOption[n] # ""
          /\ n \in DOMAIN h => h[n] = <<CrossOriginOption[n]>>

\* C22: every secured response, allowed or 405, carries the fixed security
\* headers and each Cross-Origin header exactly when its option is not empty;
\* they are in place when the inner handler starts, and setting them twice
\* leaves each header with one value and adds no header
C22_SecurityHeaders ==
    sresp # <<>> =>
        /\ CarriesSecurityHeaders(sresp.headers)
        /\ \A i \in 1..Len(sresp.atInner) :
              /\ CarriesSecurityHeaders(sresp.atInner[i])
              /\ DOMAIN sresp.atInner[i] =
                    DOMAIN FixedHeaders \cup {"Content-Security-Policy", "Cache-Control"}
                       \cup {n \in DOMAIN CrossOriginOption : CrossOriginOption[n] # ""}
        /\ sresp.innerCalls = Len(sresp.atInner)

C22_Witness ==
    /\ sresp # <<>>
    /\ sresp.innerCalls = 1
    /\ sreq.options.COEP = ""
    /\ sreq.options.CORP = "cross-origin"
    /\ "Cross-Origin-Embedder-Policy" \notin DOMAIN sresp.headers
    /\ sresp.headers["Cross-Origin-Resource-Policy"] = <<"cross-origin">>

----------------------------------------------------------------------------
(* Properties of redactRequestFields *)

\* the raw queries that differ from q only in the values of parameters other
\* than page and limit
RECURSIVE OtherValueVariants(_)
OtherValueVariants(q) ==
    IF q = <<>> THEN {<<>>}
    ELSE LET last == q[Len(q)]
             lasts == IF last[1] \in {"page", "limit"} THEN {last}
                      ELSE {<<last[1], v>> : v \in QueryValues}
         IN  {Append(front, l) : front \in OtherValueVariants(SubSeq(q, 1, Len(q) - 1)),
                                 l \in lasts}

\* a dotted IPv4 address
IsIPv4(a) ==
    /\ Len(a) = 7
    /\ \A i \in 1..7 : (a[i] = ".") <=> (i \in {2, 4, 6})

\* the address the request is logged with comes from this field
AddressField(r) ==
    IF r.forwardedFor # <<>> THEN "forwardedFor"
    ELSE IF r.realIP # <<>> THEN "realIP"
    ELSE "remoteHost"

\* the requests that differ from r only in the last three octets of an IPv4
\* client address
OctetVariants(r) ==
    IF ~IsIPv4(getClientIP(r)) THEN {}
    ELSE LET same == {a \in Addresses : IsIPv4(a) /\ a[1] = getClientIP(r)[1]}
         IN  CASE AddressField(r) = "forwardedFor" ->
                      {[r EXCEPT !.forwardedFor = <<a>>] : a \in same}
               [] AddressField(r) = "realIP" ->
                      {[r EXCEPT !.realIP = a] : a \in same}
               [] OTHER ->
                      {[r EXCEPT !.remoteHost = a] : a \in same}

\* the requests that differ from r only in user-agent characters beyond the
\* first 100
TailVariants(r) ==
    {[r EXCEPT !.userAgent = u] :
        u \in {v \in UserAgents :
                  /\ Len(v) >= MaxUserAgent
                  /\ Len(r.userAgent) >= MaxUserAgent
                  /\ SubSeq(v, 1, MaxUserAgent) = SubSeq(r.userAgent, 1, MaxUserAgent)}}

QueryVariants(r) == {[r EXCEPT !.rawQuery = q] : q \in OtherValueVariants(r.rawQuery)}

\* both raw queries are well formed
WellFormed(q) == \A i \in 1..Len(q) : q[i][2] # "%zz"

ParsingQueryVariants(r) ==
    IF WellFormed(r.rawQuery)
    THEN {v \in QueryVariants(r) : WellFormed(v.rawQuery)}
    ELSE {}

RedactionOff(r) ==
    redacted = [query |-> r.rawQuery, clientIP |-> getClientIP(r),
                userAgent |-> r.userAgent]

\* C23 as stated: with redaction enabled, requests that differ only in the
\* values of parameters other than page and limit, only in the last three
\* octets of an IPv4 client address, or only in user-agent characters beyond
\* the first 100 get the same three sanitized fields; with redaction disabled
\* the three fields are returned unchanged
C23_RedactionHidesOtherValues ==
    redacted # <<>> =>
        IF rreq.redaction
        THEN \A r2 \in QueryVariants(rreq) \cup OctetVariants(rreq) \cup TailVariants(rreq) :
                redactRequestFields(r2) = redacted
        ELSE RedactionOff(rreq)

\* C23 amended: the same, for parameter values that url.ParseQuery accepts in
\* both requests
C23_RedactionHidesParsedValues ==
    redacted # <<>> =>
        IF rreq.redaction
        THEN \A r2 \in ParsingQueryVariants(rreq) \cup OctetVariants(rreq)
                          \cup TailVariants(rreq) :
                redactRequestFields(r2) = redacted
        ELSE RedactionOff(rreq)

\* a redacted request with a hidden parameter, an IPv4 address and a long user
\* agent, each of which has a variant
C23_Witness ==
    /\ redacted # <<>>
    /\ rreq.redaction
    /\ \E r2 \in ParsingQueryVariants(rreq) : r2 # rreq
    /\ \E r2 \in OctetVariants(rreq) : r2 # rreq
    /\ \E r2 \in TailVariants(rreq) : r2 # rreq
    /\ \E i \in 1..Len(rreq.rawQuery) : rreq.rawQuery[i][1] = "page"

\* the sanitized query of a request with a malformed hidden value
C23_InvalidQueryWitness ==
    /\ redacted # <<>>
    /\ rreq.redaction
    /\ ~WellFormed(rreq.rawQuery)
    /\ redacted.query = <<<<"<invalid_query>", "">>>>

----------------------------------------------------------------------------
(* Properties of RequestLoggingMiddleware *)

EntriesOfType(t) == {i \in 1..Len(logs) : logs[i].type = t}

StartEntry == logs[CHOOSE i \in EntriesOfType("request_start") : TRUE]

CompleteEntry == logs[CHOOSE i \in EntriesOfType("request_complete") : TRUE]

\* C24: every request gets exactly one request_start entry, emitted before the
\* wrapped handler starts, and exactly one request_complete entry, emitted
\* after the handler has returned; the request_complete entry records status
\* 200 when the handler never called WriteHeader, and as response_size the sum
\* of the bytes its Write calls wrote
C24_OneStartOneComplete ==
    /\ Cardinality(EntriesOfType("request_start")) = (IF lpc = "start" THEN 0 ELSE 1)
    /\ Cardinality(EntriesOfType("request_complete")) = (IF lpc = "done" THEN 1 ELSE 0)
    /\ lpc = "start" => lhist.writeHeaders + lhist.writes = 0
    /\ lpc = "done" =>
          /\ lprog = <<>>
          /\ logs[1].type = "request_start"
          /\ lhist.writeHeaders = 0 => CompleteEntry.status = StatusOK
          /\ CompleteEntry.response_size = lhist.written

\* a served request whose handler wrote twice without calling WriteHeader
C24_Witness ==
    /\ lpc = "done"
    /\ lhist.writeHeaders = 0
    /\ lhist.writes = 2
    /\ lhist.written > 1
    /\ CompleteEntry.status = StatusOK

\* C28: the request_start entry and the request_complete entry of a request
\* carry the same request_id, with or without a request ID header
C28_SameRequestID ==
    lpc = "done" => StartEntry.request_id = CompleteEntry.request_id

\* with a request ID header the two entries carry that ID
C28_SameRequestIDWithHeader ==
    (/\ lpc = "done"
     /\ \/ lreq.headers.xRequestID # ""
        \/ lreq.headers.xCorrelationID # ""
        \/ lreq.headers.xTraceID # "")
        => StartEntry.request_id = CompleteEntry.request_id

\* C29: for every handler of this repository and every outcome of its writes,
\* the status in the request_complete entry is the status sent to the client
C29_LoggedStatusIsSentStatus ==
    (lpc = "done" /\ lreq.handler \in RepoHandlers)
        => CompleteEntry.status = lconn.status

\* the same for the handlers of this repository other than HealthCheckHandler
C29_LoggedStatusExceptBasicHealth ==
    (lpc = "done" /\ lreq.handler \in RepoHandlers
                  /\ lreq.handler.name # "HealthCheckHandler")
        => CompleteEntry.status = lconn.status

\* the basic health handler's write of "OK" failed after status 200 was sent
C29_FailedWriteLogged500 ==
    /\ lpc = "done"
    /\ lreq.handler.name = "HealthCheckHandler"
    /\ lconn.broken
    /\ lconn.status = StatusOK
    /\ CompleteEntry.status = StatusInternalServerError

----------------------------------------------------------------------------
(* Properties of main *)

\* ListenAndServe has returned
ServingEnded == spc \in {"failed", "closed"}

\* C30: once serving has ended the process eventually exits, after a signal
\* and also after ListenAndServe failed at startup without any signal
C30_ExitsOnceServingEnded == ServingEnded ~> (mpc = "exited")

\* after a signal main calls Shutdown once and exits
C30_ExitsAfterSignal ==
    /\ [](mhist.shutdowns <= 1)
    /\ (mpc = "shutdown") ~> (mpc = "exited" /\ mhist.shutdowns = 1)

\* ListenAndServe failed at startup, no signal was sent, and main is still
\* waiting on quit
C30_StuckAfterListenFailure ==
    /\ spc = "failed"
    /\ mhist.signals = 0
    /\ mpc = "waiting"

====
